---- MODULE Spec2Model ----
(***************************************************************************)
(* Model of the VIN recall pipeline: scrapeVinData (two-phase lookup       *)
(* orchestration), the FordScraper lookup with its own timeout retry, and  *)
(* the row expansion of createOutputExcel; and of processExcelFile's        *)
(* extraction of the VINs of a sheet (VIN detection, opened date, one      *)
(* record per VIN).                                                        *)
(*                                                                         *)
(* A VIN is an opaque value for the orchestrator; it is modelled by its    *)
(* index in the fleet (1, 2, ...).  An error message is a sequence of      *)
(* text fragments, so that String.includes is fragment membership and      *)
(* template concatenation is \o.                                           *)
(***************************************************************************)
EXTENDS Integers, Sequences, FiniteSets, TLC

\* ---------------------------------------------------------------- bounds
MaxVins == 2
MaxRecalls == 3
\* rows of the sheet processExcelFile reads
MaxRows == 3

\* -------------------------------------------------------------- constants
\* Restart cadences, scaled down from the source values (50 and 100) so that
\* a run of MaxVins VINs crosses a cadence boundary.
BATCH_SIZE == 1
DOCSEARCH_BATCH_SIZE == 2
\* Orchestrator retries per VIN, and FordScraper's retries after a timeout.
MAX_RETRIES == 1
ScraperMaxRetries == 2

NULL == [tag |-> "null"]

\* ------------------------------------------------------------ error texts
MsgVinInput == <<"Could not find VIN input field">>
MsgNsAbort == <<"page.goto: ", "NS_ERROR_ABORT">>
MsgInvalidVin == <<"Invalid VIN: Enter a valid 17-character Ford VIN">>
MsgPwTimeout == <<"page.goto: ", "Timeout", " 30000ms exceeded.">>
MsgNotInit == <<"Scraper not initialized. Call initialize() first.">>
MsgReinit == <<"Failed to reinitialize browser after timeout">>
MsgRace == <<"Request timeout after 60 seconds">>
MsgRestartPrefix == <<"Failed to restart browser after error: ">>

Includes(msg, fragment) == \E k \in DOMAIN msg : msg[k] = fragment

isVinInputError(errorMessage) == Includes(errorMessage, "Could not find VIN input field")
isNsErrorAbort(errorMessage) == Includes(errorMessage, "NS_ERROR_ABORT")
needsBrowserRestart(errorMessage) ==
    isVinInputError(errorMessage) \/ isNsErrorAbort(errorMessage)

\* ------------------------------------------------- what the Ford page shows
RecallCatalogue ==
    << [recallNumber |-> "24V684", type |-> "Recall"],
       [recallNumber |-> "23S10", type |-> "Recall"],
       [recallNumber |-> "22L05", type |-> "Safety"] >>

NoRecallInformation == "No recall information"
NoRecallInformationAvailable == "No recall information available"
MayBeAvailable == "Recall information may be available but could not be extracted"

Placeholder(text) == [recallNumber |-> text, type |-> "Recall"]

RECURSIVE SubSeqsFrom(_, _)
\* The order-preserving subsequences of s[k..Len(s)].
SubSeqsFrom(s, k) ==
    IF k > Len(s) THEN { <<>> }
    ELSE LET rest == SubSeqsFrom(s, k + 1)
         IN  rest \cup { <<s[k]>> \o r : r \in rest }

\* extractRecallData: one placeholder entry, or no entry, or the distinct
\* recall and campaign numbers in page order (recalls first).
RecallLists ==
    { <<Placeholder(NoRecallInformation)>>,
      <<Placeholder(NoRecallInformationAvailable)>>,
      <<Placeholder(MayBeAvailable)>>,
      <<>> }
    \cup { l \in SubSeqsFrom(RecallCatalogue, 1) : Len(l) >= 1 /\ Len(l) <= MaxRecalls }

FordSuccess(vin, l) == [tag |-> "ford", vin |-> vin, success |-> TRUE, recalls |-> l]
FordFailure(vin, msg) == [tag |-> "ford", vin |-> vin, success |-> FALSE, error |-> msg]

\* Failures a running page workflow returns without retrying.
PageFailures == { MsgVinInput, MsgNsAbort, MsgInvalidVin }

VARIABLES
    vinNumbers,        \* input of scrapeVinData: the VINs, in order
    pc,                \* position of scrapeVinData
    i,                 \* loop index of Phase 1 (0-based, as in the source)
    fordInitialized,
    retryCount,
    scrapingSuccess,
    errorMessage,
    vinResult,
    results,
    fordPage,          \* FordScraper.page is non-null
    fordCall,          \* the lookup the orchestrator awaits, or NULL
    fordOrphans,       \* lookups still running after the timer won the race
    docsearchInitialized,
    docsearchAuthenticated,
    docOpen,           \* DocSearchScraper.page belongs to an open browser
    docIsAuthenticated, \* DocSearchScraper.isAuthenticated
    uniqueRecallsArray,
    recallToVinsMap,
    recallToDocsearchDataMap,
    j,                 \* loop index of Phase 3 (the source's second i)
    docCall,           \* the recall number of the awaited searchVinData, or NULL
    docOrphans,        \* searchVinData calls still running after a timeout
    resolveCalls,      \* the recall numbers passed to searchVinData, in order
    recallsToCheck,    \* server.js only: the (recall number, VIN) pairs to look up
    excelData,         \* rows of the Recall Data sheet
    attempts,          \* history: scrapeVinRecallData calls made for the current VIN
    firstError,        \* history: the message the first attempt failed with
    restartLog,        \* history: the restart steps taken for the current VIN
    data,              \* processExcelFile: the rows of the sheet
    vinColumn,         \* "auto" or a column letter
    xpc,               \* position of the extraction
    rowIdx,            \* rows handled by data.forEach
    vinMap,            \* VIN -> {vin, originalRow, dateInfo}, in insertion order
    extractedVins,     \* processExcelFile's vinNumbers: {vin, originalRow}
    outcome,           \* what processExcelFile returned or threw, or NULL
    groupedData,       \* rows of the Grouped by Recall sheet
    needsEAData,       \* rows of the Needs EA sheet
    needsWOData,       \* rows of the Needs WO sheet
    outputData,        \* /compare: the rows of the first sheet of the output file
    comparisonData,    \* /compare: the rows of the first sheet of the comparison file
    response,          \* /compare: the response sent, or NULL
    sseClients,        \* the registry holds a stream for the run's session
    sseWire,           \* events written to the stream and not yet delivered
    sseLog,            \* history: what was ever written to the stream
    uploadPc,          \* POST /upload: position of the handler
    uploadedFile,      \* the uploaded file is in the upload directory
    uploadReply,       \* the response of POST /upload, or NULL
    emitted,           \* events the run has emitted
    client,            \* the page: button, sections, EventSource, fetch
    progress           \* history: the progress events emitted so far, summarised

historyVars == << attempts, firstError, restartLog >>
phase1Vars == << i, fordInitialized, retryCount, scrapingSuccess, errorMessage,
                vinResult, fordCall, historyVars >>
phase3Vars == << docsearchInitialized, docsearchAuthenticated, docOpen,
                docIsAuthenticated, uniqueRecallsArray, recallToVinsMap,
                recallToDocsearchDataMap, j, docCall, docOrphans, resolveCalls,
                recallsToCheck >>

reportVars == << groupedData, needsEAData, needsWOData >>
pipelineVars == << vinNumbers, pc, results, fordPage, fordOrphans, excelData,
                  phase1Vars, phase3Vars, reportVars >>
extractVars == << data, vinColumn, xpc, rowIdx, vinMap, extractedVins, outcome >>

\* POST /compare: the rows read from the two files and the response
compareVars == << outputData, comparisonData, response >>

\* POST /upload, GET /progress/:sessionId and the page that calls them
uploadVars == << sseClients, sseWire, sseLog, uploadPc, uploadedFile, uploadReply,
                emitted, client >>

vars == << pipelineVars, extractVars, compareVars, uploadVars, progress >>

\* history: no progress event has been emitted.
NoProgress == [last |-> 0, ordered |-> TRUE]

\* emitProgress(sessionId, {type: 'progress', message, progress: percent}):
\* the event is written to the client registered for the session, if there is
\* one. Of the events emitted so far the history keeps the percentage of the
\* last one, and whether none carried less than the one before it.
emitProgress(events, percent) ==
    [last |-> percent, ordered |-> events.ordered /\ percent >= events.last]

RECURSIVE emitAll(_, _)
\* emitProgress for each percentage of percents, in order
emitAll(events, percents) ==
    IF percents = <<>> THEN events
    ELSE emitAll(emitProgress(events, Head(percents)), Tail(percents))

\* A percentage that counts down from 60.
fordProgressCountdown(idx, length) == 60 - (idx * 30) \div length

\* progressPercent = 30 + Math.floor((i / vinNumbers.length) * 30)
fordProgressPercent(idx, length) == 30 + (idx * 30) \div length

\* progressPercent = 75 + Math.floor((i / uniqueRecallsArray.length) * 15)
docsearchProgressPercent(idx, length) == 75 + (idx * 15) \div length

\* No /compare request has been made.
InitNoCompare ==
    /\ outputData = <<>>
    /\ comparisonData = <<>>
    /\ response = NULL

\* No file has been sent for processing: the page as loaded, the registry empty.
InitNoUpload ==
    /\ sseClients = FALSE
    /\ sseWire = << >>
    /\ sseLog = {}
    /\ uploadPc = "idle"
    /\ uploadedFile = FALSE
    /\ uploadReply = NULL
    /\ emitted = 0
    /\ client = [processBtnDisabled |-> FALSE, progressShown |-> FALSE,
                 resultsShown |-> FALSE, errorShown |-> FALSE,
                 eventSource |-> "none", fetch |-> "none"]

\* scrapeVinData before its first statement, the input apart
InitRun ==
    /\ pc = "init"
    /\ i = 0
    /\ fordInitialized = FALSE
    /\ retryCount = 0
    /\ scrapingSuccess = FALSE
    /\ errorMessage = <<>>
    /\ vinResult = NULL
    /\ results = <<>>
    /\ fordPage = FALSE
    /\ fordCall = NULL
    /\ fordOrphans = {}
    /\ docsearchInitialized = FALSE
    /\ docsearchAuthenticated = FALSE
    /\ docOpen = FALSE
    /\ docIsAuthenticated = FALSE
    /\ uniqueRecallsArray = <<>>
    /\ recallToVinsMap = <<>>
    /\ recallToDocsearchDataMap = <<>>
    /\ j = 0
    /\ docCall = NULL
    /\ docOrphans = 0
    /\ resolveCalls = <<>>
    /\ recallsToCheck = <<>>
    /\ excelData = <<>>
    /\ groupedData = <<>>
    /\ needsEAData = <<>>
    /\ needsWOData = <<>>
    /\ attempts = 0
    /\ firstError = <<>>
    /\ restartLog = <<>>

InitNoSheet ==
    /\ data = <<>>
    /\ vinColumn = "auto"
    /\ xpc = "idle"
    /\ rowIdx = 0
    /\ vinMap = <<>>
    /\ extractedVins = <<>>
    /\ outcome = NULL

Init ==
    /\ \E n \in 1..MaxVins : vinNumbers = [k \in 1..n |-> k]
    /\ InitRun
    /\ InitNoSheet
    /\ InitNoCompare
    /\ InitNoUpload
    \* processExcelFile has emitted 10 and 15 before it calls scrapeVinData
    /\ progress = emitAll(NoProgress, << 10, 15 >>)

\* --------------------------------------------------------------- Phase 1
NewVinResult(vin) ==
    [vin |-> vin, fordData |-> NULL, docsearchDataByRecall |-> <<>>]

\* const fordInitialized = await fordScraper.initialize()
FordInitialize ==
    /\ pc = "init"
    /\ xpc \in { "idle", "scraping" }
    /\ \E ok \in BOOLEAN :
        /\ fordInitialized' = ok
        /\ fordPage' = ok
    /\ pc' = "p1_loop"
    /\ UNCHANGED << vinNumbers, i, retryCount, scrapingSuccess, errorMessage,
                    vinResult, results, fordCall, fordOrphans,
                    phase3Vars, excelData, historyVars >>
    /\ UNCHANGED << extractVars, reportVars >>
    /\ progress' = emitProgress(emitProgress(progress, 20), 30)
    /\ UNCHANGED << compareVars, uploadVars >>

\* for (let i = 0; i < vinNumbers.length; i++) { const vinResult = {...}
P1LoopHead ==
    /\ pc = "p1_loop"
    /\ i < Len(vinNumbers)
    /\ vinResult' = NewVinResult(vinNumbers[i + 1])
    /\ retryCount' = 0
    /\ scrapingSuccess' = FALSE
    /\ errorMessage' = <<>>
    /\ attempts' = 0
    /\ firstError' = <<>>
    /\ restartLog' = <<>>
    /\ pc' = IF fordInitialized THEN "p1_while" ELSE "p1_push"
    /\ UNCHANGED << vinNumbers, i, fordInitialized, results, fordPage, fordCall,
                    fordOrphans,
                    phase3Vars, excelData >>
    /\ UNCHANGED << extractVars, reportVars >>
    /\ progress' = emitProgress(progress, fordProgressPercent(i, Len(vinNumbers)))
    /\ UNCHANGED << compareVars, uploadVars >>

\* while (retryCount <= MAX_RETRIES && !scrapingSuccess) {
\*   const scrapingPromise = fordScraper.scrapeVinRecallData(vin)
P1While ==
    /\ pc = "p1_while"
    /\ IF retryCount <= MAX_RETRIES /\ ~scrapingSuccess
       THEN /\ fordCall' = [vin |-> vinResult.vin, rc |-> 0,
                            st |-> IF fordPage THEN "run" ELSE "notinit"]
            /\ attempts' = attempts + 1
            /\ pc' = "p1_race"
       ELSE /\ pc' = "p1_push"
            /\ UNCHANGED << fordCall, attempts >>
    /\ UNCHANGED << vinNumbers, i, fordInitialized, retryCount, scrapingSuccess,
                    errorMessage, vinResult, results, fordPage, fordOrphans,
                    phase3Vars, excelData, firstError, restartLog >>
    /\ UNCHANGED << extractVars, reportVars >>
    /\ UNCHANGED << compareVars, uploadVars, progress >>

\* A catch block that rethrows: the failure leaves the loop for the finally.
P1CatchRethrow(msg) ==
    /\ errorMessage' = msg
    /\ firstError' = IF attempts = 1 THEN msg ELSE firstError
    /\ pc' = "finally"
    /\ UNCHANGED scrapingSuccess

\* A catch block that restarts and retries after any failure.
P1CatchRetryAny(msg) ==
    /\ firstError' = IF attempts = 1 THEN msg ELSE firstError
    /\ IF retryCount < MAX_RETRIES
       THEN /\ errorMessage' = msg
            /\ pc' = "p1_r_close"
            /\ UNCHANGED scrapingSuccess
       ELSE /\ errorMessage' = msg
            /\ scrapingSuccess' = TRUE
            /\ pc' = "p1_while"

\* The catch block of the retry loop, entered with the thrown message.
P1Catch(msg) ==
    /\ firstError' = IF attempts = 1 THEN msg ELSE firstError
    /\ IF needsBrowserRestart(msg) /\ retryCount < MAX_RETRIES
       THEN /\ errorMessage' = msg
            /\ pc' = "p1_r_close"
            /\ UNCHANGED scrapingSuccess
       ELSE /\ errorMessage' = msg
            /\ scrapingSuccess' = TRUE
            /\ pc' = "p1_while"

\* What a lookup in state st can return when it settles.
LookupOutcomes(call) ==
    IF call.st = "notinit" THEN { FordFailure(call.vin, MsgNotInit) }
    ELSE IF call.st = "run" THEN
           { FordSuccess(call.vin, l) : l \in RecallLists }
           \cup { FordFailure(call.vin, m) : m \in PageFailures }
           \cup (IF call.rc >= ScraperMaxRetries
                 THEN { FordFailure(call.vin, MsgPwTimeout) } ELSE {})
    ELSE {}

\* vinResult.fordData = await Promise.race([...]): the lookup settles first.
P1Settle ==
    /\ pc = "p1_race"
    /\ fordCall # NULL
    /\ \E fd \in LookupOutcomes(fordCall) :
        IF fd.success
        THEN /\ vinResult' = [vinResult EXCEPT !.fordData = fd]
             /\ scrapingSuccess' = TRUE
             /\ pc' = "p1_while"
             /\ UNCHANGED << errorMessage, firstError >>
        ELSE /\ P1Catch(fd.error)
             /\ vinResult' = [vinResult EXCEPT !.fordData =
                    IF needsBrowserRestart(fd.error) /\ retryCount < MAX_RETRIES
                    THEN fd ELSE FordFailure(vinResult.vin, fd.error)]
    /\ fordCall' = NULL
    /\ UNCHANGED << vinNumbers, i, fordInitialized, retryCount, results, fordPage,
                    fordOrphans,
                    phase3Vars, excelData, attempts, restartLog >>
    /\ UNCHANGED << extractVars, reportVars >>
    /\ UNCHANGED << compareVars, uploadVars, progress >>

\* Promise.race: the 60 second timer rejects first; the lookup keeps running.
P1Timeout ==
    /\ pc = "p1_race"
    /\ fordCall # NULL
    /\ fordCall.st \in {"run", "cooldown"}
    /\ fordOrphans' = fordOrphans \cup {fordCall}
    /\ fordCall' = NULL
    /\ P1Catch(MsgRace)
    /\ vinResult' = [vinResult EXCEPT !.fordData = FordFailure(vinResult.vin, MsgRace)]
    /\ UNCHANGED << vinNumbers, i, fordInitialized, retryCount, results, fordPage,
                    phase3Vars, excelData, attempts, restartLog >>
    /\ UNCHANGED << extractVars, reportVars >>
    /\ UNCHANGED << compareVars, uploadVars, progress >>

\* ------------------------------------ inside FordScraper.scrapeVinRecallData
\* A catch block that restarts the browser after every timeout error.
LookupTimeoutCloseAlways(call) ==
    /\ call.st = "run"
    /\ fordPage' = FALSE

\* catch (error): a timeout error with retryCount < MAX_RETRIES closes the
\* browser (await this.close()) and waits 2 s.
LookupTimeoutClose(call) ==
    /\ call.st = "run"
    /\ call.rc < ScraperMaxRetries
    /\ fordPage' = FALSE

\* const reinitialized = await this.initialize(); then the recursive call
\* scrapeVinRecallData(vinNumber, retryCount + 1), or the failure result.
\* A failed initialize leaves this.page as it was.
LookupReinitPage(ok) == IF ok THEN TRUE ELSE fordPage

\* The awaited lookup hits a timeout error and restarts the browser.
FgTimeoutClose ==
    /\ fordCall # NULL
    /\ LookupTimeoutClose(fordCall)
    /\ fordCall' = [fordCall EXCEPT !.st = "cooldown"]
    /\ UNCHANGED << vinNumbers, pc, i, fordInitialized, retryCount, scrapingSuccess,
                    errorMessage, vinResult, results, fordOrphans,
                    phase3Vars, excelData, historyVars >>
    /\ UNCHANGED << extractVars, reportVars >>
    /\ UNCHANGED << compareVars, uploadVars, progress >>

FgReinitOk ==
    /\ fordCall # NULL
    /\ fordCall.st = "cooldown"
    /\ fordPage' = LookupReinitPage(TRUE)
    /\ fordCall' = [fordCall EXCEPT !.st = "run", !.rc = @ + 1]
    /\ UNCHANGED << vinNumbers, pc, i, fordInitialized, retryCount, scrapingSuccess,
                    errorMessage, vinResult, results, fordOrphans,
                    phase3Vars, excelData, historyVars >>
    /\ UNCHANGED << extractVars, reportVars >>
    /\ UNCHANGED << compareVars, uploadVars, progress >>

\* initialize() returned false: the lookup returns the failure result.
FgReinitFail ==
    /\ pc = "p1_race"
    /\ fordCall # NULL
    /\ fordCall.st = "cooldown"
    /\ fordPage' = LookupReinitPage(FALSE)
    /\ fordCall' = NULL
    /\ P1Catch(MsgReinit)
    /\ vinResult' = [vinResult EXCEPT !.fordData = FordFailure(vinResult.vin, MsgReinit)]
    /\ UNCHANGED << vinNumbers, i, fordInitialized, retryCount, results,
                    fordOrphans,
                    phase3Vars, excelData, attempts, restartLog >>
    /\ UNCHANGED << extractVars, reportVars >>
    /\ UNCHANGED << compareVars, uploadVars, progress >>

\* The same steps of a lookup nobody awaits any more.
OrphanTimeoutClose ==
    /\ \E call \in fordOrphans :
        /\ LookupTimeoutClose(call)
        /\ fordOrphans' = (fordOrphans \ {call}) \cup {[call EXCEPT !.st = "cooldown"]}
    /\ UNCHANGED << vinNumbers, pc, i, fordInitialized, retryCount, scrapingSuccess,
                    errorMessage, vinResult, results, fordCall,
                    phase3Vars, excelData, historyVars >>
    /\ UNCHANGED << extractVars, reportVars >>
    /\ UNCHANGED << compareVars, uploadVars, progress >>

OrphanReinitOk ==
    /\ \E call \in fordOrphans :
        /\ call.st = "cooldown"
        /\ fordPage' = LookupReinitPage(TRUE)
        /\ fordOrphans' = (fordOrphans \ {call})
                          \cup {[call EXCEPT !.st = "run", !.rc = @ + 1]}
    /\ UNCHANGED << vinNumbers, pc, i, fordInitialized, retryCount, scrapingSuccess,
                    errorMessage, vinResult, results, fordCall,
                    phase3Vars, excelData, historyVars >>
    /\ UNCHANGED << extractVars, reportVars >>
    /\ UNCHANGED << compareVars, uploadVars, progress >>

\* An unawaited lookup returns (any result, or the failed re-initialize);
\* nobody reads what it returns.
OrphanSettle ==
    /\ \E call \in fordOrphans :
        /\ fordOrphans' = fordOrphans \ {call}
        /\ fordPage' = IF call.st = "cooldown" THEN LookupReinitPage(FALSE) ELSE fordPage
    /\ UNCHANGED << vinNumbers, pc, i, fordInitialized, retryCount, scrapingSuccess,
                    errorMessage, vinResult, results, fordCall,
                    phase3Vars, excelData, historyVars >>
    /\ UNCHANGED << extractVars, reportVars >>
    /\ UNCHANGED << compareVars, uploadVars, progress >>

\* ------------------------------------------- restart and retry of one VIN
\* await fordScraper.close()
P1RestartClose ==
    /\ pc = "p1_r_close"
    /\ fordPage' = FALSE
    /\ restartLog' = Append(restartLog, "close")
    /\ pc' = "p1_r_wait"
    /\ UNCHANGED << vinNumbers, i, fordInitialized, retryCount, scrapingSuccess,
                    errorMessage, vinResult, results, fordCall, fordOrphans,
                    phase3Vars, excelData, attempts, firstError >>
    /\ UNCHANGED << extractVars, reportVars >>
    /\ UNCHANGED << compareVars, uploadVars, progress >>

\* await new Promise(resolve => setTimeout(resolve, 2000))
P1RestartWait ==
    /\ pc = "p1_r_wait"
    /\ restartLog' = Append(restartLog, "cooldown")
    /\ pc' = "p1_r_init"
    /\ UNCHANGED << vinNumbers, i, fordInitialized, retryCount, scrapingSuccess,
                    errorMessage, vinResult, results, fordPage, fordCall, fordOrphans,
                    phase3Vars, excelData, attempts, firstError >>
    /\ UNCHANGED << extractVars, reportVars >>
    /\ UNCHANGED << compareVars, uploadVars, progress >>

\* A restart that goes on to the retry whether or not initialize() succeeded.
P1RestartInitRetryAnyway ==
    /\ pc = "p1_r_init"
    /\ \E reinitialized \in BOOLEAN :
        /\ fordPage' = LookupReinitPage(reinitialized)
        /\ restartLog' = Append(restartLog, IF reinitialized THEN "initialize"
                                                 ELSE "initialize failed")
        /\ IF FALSE
           THEN /\ vinResult' = [vinResult EXCEPT !.fordData =
                        FordFailure(vinResult.vin, MsgRestartPrefix \o errorMessage)]
                /\ scrapingSuccess' = TRUE
                /\ UNCHANGED retryCount
           ELSE /\ retryCount' = retryCount + 1
                /\ UNCHANGED << vinResult, scrapingSuccess >>
    /\ pc' = "p1_while"
    /\ UNCHANGED << vinNumbers, i, fordInitialized, errorMessage, results, fordCall,
                    fordOrphans,
                    phase3Vars, excelData, attempts, firstError >>
    /\ UNCHANGED << extractVars, reportVars >>
    /\ UNCHANGED << compareVars, uploadVars, progress >>

\* const reinitialized = await fordScraper.initialize()
P1RestartInit ==
    /\ pc = "p1_r_init"
    /\ \E reinitialized \in BOOLEAN :
        /\ fordPage' = LookupReinitPage(reinitialized)
        /\ restartLog' = Append(restartLog, IF reinitialized THEN "initialize"
                                                 ELSE "initialize failed")
        /\ IF ~reinitialized
           THEN /\ vinResult' = [vinResult EXCEPT !.fordData =
                        FordFailure(vinResult.vin, MsgRestartPrefix \o errorMessage)]
                /\ scrapingSuccess' = TRUE
                /\ UNCHANGED retryCount
           ELSE /\ retryCount' = retryCount + 1
                /\ UNCHANGED << vinResult, scrapingSuccess >>
    /\ pc' = "p1_while"
    /\ UNCHANGED << vinNumbers, i, fordInitialized, errorMessage, results, fordCall,
                    fordOrphans,
                    phase3Vars, excelData, attempts, firstError >>
    /\ UNCHANGED << extractVars, reportVars >>
    /\ UNCHANGED << compareVars, uploadVars, progress >>

\* A loop that waits only after a VIN whose lookup succeeded.
AfterBatchDelayOnSuccess(idx) ==
    IF /\ idx < Len(vinNumbers) - 1
       /\ results # <<>>
       /\ results[Len(results)].fordData # NULL
       /\ results[Len(results)].fordData.success
    THEN "p1_delay" ELSE "p1_next"

\* ------------------------------------------------- end of one iteration
AfterBatch(idx) == IF idx < Len(vinNumbers) - 1 THEN "p1_delay" ELSE "p1_next"

\* results.push(vinResult); then the restart cadence test
P1Push ==
    /\ pc = "p1_push"
    /\ results' = Append(results, vinResult)
    /\ pc' = IF (i + 1) % BATCH_SIZE = 0 /\ i < Len(vinNumbers) - 1 /\ fordInitialized
             THEN "p1_b_close" ELSE AfterBatch(i)
    \* vinResult, retryCount, scrapingSuccess and errorMessage are locals of
    \* the loop body: nothing reads them after the push.
    /\ vinResult' = NULL
    /\ retryCount' = 0
    /\ scrapingSuccess' = FALSE
    /\ errorMessage' = <<>>
    /\ attempts' = 0
    /\ firstError' = <<>>
    /\ restartLog' = <<>>
    /\ UNCHANGED << vinNumbers, i, fordInitialized, fordPage, fordCall, fordOrphans,
                    phase3Vars, excelData >>
    /\ UNCHANGED << extractVars, reportVars >>
    /\ UNCHANGED << compareVars, uploadVars, progress >>

\* await fordScraper.close()
P1BatchClose ==
    /\ pc = "p1_b_close"
    /\ fordPage' = FALSE
    /\ pc' = "p1_b_init"
    /\ UNCHANGED << vinNumbers, i, fordInitialized, retryCount, scrapingSuccess,
                    errorMessage, vinResult, results, fordCall, fordOrphans,
                    phase3Vars, excelData, historyVars >>
    /\ UNCHANGED << extractVars, reportVars >>
    /\ UNCHANGED << compareVars, uploadVars, progress >>

\* const reinitialized = await fordScraper.initialize(); a failure is logged
P1BatchInit ==
    /\ pc = "p1_b_init"
    /\ \E reinitialized \in BOOLEAN : fordPage' = LookupReinitPage(reinitialized)
    /\ pc' = AfterBatch(i)
    /\ UNCHANGED << vinNumbers, i, fordInitialized, retryCount, scrapingSuccess,
                    errorMessage, vinResult, results, fordCall, fordOrphans,
                    phase3Vars, excelData, historyVars >>
    /\ UNCHANGED << extractVars, reportVars >>
    /\ UNCHANGED << compareVars, uploadVars, progress >>

\* await new Promise(resolve => setTimeout(resolve, 3000)), between VINs
P1Delay ==
    /\ pc = "p1_delay"
    /\ pc' = "p1_next"
    /\ UNCHANGED << vinNumbers, i, fordInitialized, retryCount, scrapingSuccess,
                    errorMessage, vinResult, results, fordPage, fordCall, fordOrphans,
                    phase3Vars, excelData, historyVars >>
    /\ UNCHANGED << extractVars, reportVars >>
    /\ UNCHANGED << compareVars, uploadVars, progress >>

\* i++
P1Next ==
    /\ pc = "p1_next"
    /\ i' = i + 1
    /\ pc' = "p1_loop"
    /\ UNCHANGED << vinNumbers, fordInitialized, retryCount, scrapingSuccess,
                    errorMessage, vinResult, results, fordPage, fordCall, fordOrphans,
                    phase3Vars, excelData, historyVars >>
    /\ UNCHANGED << extractVars, reportVars >>
    /\ UNCHANGED << compareVars, uploadVars, progress >>

\* if (fordInitialized) await fordScraper.close()
P1End ==
    /\ pc = "p1_loop"
    /\ i >= Len(vinNumbers)
    /\ fordPage' = IF fordInitialized THEN FALSE ELSE fordPage
    /\ pc' = "p2_init"
    /\ UNCHANGED << vinNumbers, i, fordInitialized, retryCount, scrapingSuccess,
                    errorMessage, vinResult, results, fordCall, fordOrphans,
                    phase3Vars, excelData, historyVars >>
    /\ UNCHANGED << extractVars, reportVars >>
    /\ UNCHANGED << compareVars, uploadVars, progress >>

\* ------------------------------------------------ Phase 2: authentication
\* const docsearchInitialized = await docsearchScraper.initialize()
P2Init ==
    /\ pc = "p2_init"
    /\ \E ok \in BOOLEAN :
        /\ docsearchInitialized' = ok
        /\ docOpen' = ok
        /\ pc' = IF ok THEN "p2_check" ELSE "p3_collect"
    /\ UNCHANGED << vinNumbers, results, fordPage, fordOrphans, excelData, phase1Vars,
                    docsearchAuthenticated, docIsAuthenticated, uniqueRecallsArray,
                    recallToVinsMap, recallToDocsearchDataMap, j, docCall, docOrphans,
                    resolveCalls,
                    recallsToCheck >>
    /\ UNCHANGED << extractVars, reportVars >>
    /\ progress' = emitProgress(progress, 60)
    /\ UNCHANGED << compareVars, uploadVars >>

\* const checkSignedIn = await docsearchScraper.checkIfAlreadySignedIn()
P2Check ==
    /\ pc = "p2_check"
    /\ \E checkSignedIn \in BOOLEAN :
        /\ docsearchAuthenticated' = checkSignedIn
        /\ docIsAuthenticated' = (docIsAuthenticated \/ checkSignedIn)
        /\ pc' = IF checkSignedIn THEN "p3_collect" ELSE "p2_auth"
    /\ UNCHANGED << vinNumbers, results, fordPage, fordOrphans, excelData, phase1Vars,
                    docsearchInitialized, docOpen, uniqueRecallsArray,
                    recallToVinsMap, recallToDocsearchDataMap, j, docCall, docOrphans,
                    resolveCalls,
                    recallsToCheck >>
    /\ UNCHANGED << extractVars, reportVars >>
    /\ progress' = IF docsearchAuthenticated' THEN progress
                         ELSE emitProgress(progress, 65)
    /\ UNCHANGED << compareVars, uploadVars >>

\* An authentication that goes back to the sign-in check for as long as the
\* user has not signed in.
P2AuthenticateWaitForever ==
    /\ pc = "p2_auth"
    /\ \E ok \in BOOLEAN :
        /\ docsearchAuthenticated' = ok
        /\ docIsAuthenticated' = (docIsAuthenticated \/ ok)
        /\ pc' = IF ok THEN "p3_collect" ELSE "p2_check"
    /\ UNCHANGED << vinNumbers, results, fordPage, fordOrphans, excelData, phase1Vars,
                    docsearchInitialized, docOpen, uniqueRecallsArray,
                    recallToVinsMap, recallToDocsearchDataMap, j, docCall, docOrphans,
                    resolveCalls,
                    recallsToCheck >>
    /\ UNCHANGED << extractVars, reportVars >>
    /\ progress' = IF docsearchAuthenticated' THEN emitProgress(progress, 70)
                         ELSE progress
    /\ UNCHANGED << compareVars, uploadVars >>

\* docsearchAuthenticated = await docsearchScraper.authenticate()
P2Authenticate ==
    /\ pc = "p2_auth"
    /\ \E ok \in BOOLEAN :
        /\ docsearchAuthenticated' = ok
        /\ docIsAuthenticated' = (docIsAuthenticated \/ ok)
    /\ pc' = "p3_collect"
    /\ UNCHANGED << vinNumbers, results, fordPage, fordOrphans, excelData, phase1Vars,
                    docsearchInitialized, docOpen, uniqueRecallsArray,
                    recallToVinsMap, recallToDocsearchDataMap, j, docCall, docOrphans,
                    resolveCalls,
                    recallsToCheck >>
    /\ UNCHANGED << extractVars, reportVars >>
    /\ progress' = IF docsearchAuthenticated' THEN emitProgress(progress, 70)
                         ELSE progress
    /\ UNCHANGED << compareVars, uploadVars >>

\* ------------------------------------------- Phase 3: unique recall numbers
\* result.fordData && success && recallData && recallData.recalls
HasRecallList(result) ==
    /\ result.fordData # NULL
    /\ result.fordData.success
    /\ "recalls" \in DOMAIN result.fordData

\* A filter that lets every non-empty recall number through.
isValidRecallAnyText(recall) == recall.recallNumber # ""

isValidRecall(recall) ==
    /\ recall.recallNumber # ""
    /\ recall.recallNumber # NoRecallInformation
    /\ recall.recallNumber # NoRecallInformationAvailable

\* recalls.filter(recall => ...)
validRecalls(result) ==
    IF HasRecallList(result)
    THEN SelectSeq(result.fordData.recalls, isValidRecall)
    ELSE <<>>

SeqContains(s, x) == \E k \in DOMAIN s : s[k] = x

RECURSIVE AddAllUnique(_, _, _)
\* uniqueRecallNumbers.add(recallNum) for recalls[k..], in insertion order.
AddAllUnique(acc, recalls, k) ==
    IF k > Len(recalls) THEN acc
    ELSE AddAllUnique(IF SeqContains(acc, recalls[k].recallNumber) THEN acc
                      ELSE Append(acc, recalls[k].recallNumber),
                      recalls, k + 1)

RECURSIVE CollectUnique(_, _, _)
\* STEP 1 and 2: Array.from(uniqueRecallNumbers) over results[k..].
CollectUnique(acc, res, k) ==
    IF k > Len(res) THEN acc
    ELSE CollectUnique(AddAllUnique(acc, validRecalls(res[k]), 1), res, k + 1)

RECURSIVE VinsHaving(_, _, _)
\* recallToVinsMap.get(recallNum): one entry per occurrence, in result order.
VinsHaving(recallNum, res, k) ==
    IF k > Len(res) THEN <<>>
    ELSE LET hits == SelectSeq(validRecalls(res[k]),
                               LAMBDA recall : recall.recallNumber = recallNum)
         IN  [n \in 1..Len(hits) |-> res[k].vin] \o VinsHaving(recallNum, res, k + 1)

SeqToSet(s) == { s[k] : k \in DOMAIN s }

NullEa == ""
EaNumberFound == "15-479030-03 rev C"
MsgInputField == <<"Input field not found">>
MsgNotAvailable == <<"DocSearch data not available">>

DocSuccess(recallNumber, eaExists, eaNumber) ==
    [success |-> TRUE, recallNumber |-> recallNumber, eaExists |-> eaExists,
     eaNumber |-> eaNumber]
DocFailure(recallNumber, msg) ==
    [success |-> FALSE, recallNumber |-> recallNumber, error |-> msg,
     eaExists |-> FALSE, eaNumber |-> NullEa]

\* What searchVinData(recallNumber) can return: with a closed browser every
\* page operation throws and the catch returns the failure object.
SearchOutcomes(recallNumber) ==
    { DocFailure(recallNumber, MsgInputField) }
    \cup (IF docOpen
          THEN { DocSuccess(recallNumber, TRUE, EaNumberFound),
                 DocSuccess(recallNumber, TRUE, NullEa),
                 DocSuccess(recallNumber, FALSE, NullEa) }
          ELSE {})

MapSet(map, key, value) == [k \in DOMAIN map \cup {key} |-> IF k = key THEN value ELSE map[k]]

\* A Phase 3 that starts whether or not DocSearch is authenticated.
P3CollectAnyway ==
    /\ pc = "p3_collect"
    /\ IF TRUE
       THEN LET unique == CollectUnique(<<>>, results, 1)
            IN  /\ uniqueRecallsArray' = unique
                /\ recallToVinsMap' =
                       [r \in SeqToSet(unique) |-> VinsHaving(r, results, 1)]
                /\ results' = [k \in DOMAIN results |->
                       IF HasRecallList(results[k])
                       THEN [results[k] EXCEPT !.docsearchDataByRecall = <<>>]
                       ELSE results[k]]
                /\ pc' = "p3_loop"
       ELSE /\ pc' = "p3_close"
            /\ UNCHANGED << uniqueRecallsArray, recallToVinsMap, results >>
    /\ UNCHANGED << vinNumbers, fordPage, fordOrphans, excelData, phase1Vars,
                    docsearchInitialized, docsearchAuthenticated, docOpen,
                    docIsAuthenticated, recallToDocsearchDataMap, j, docCall,
                    docOrphans, resolveCalls,
                    recallsToCheck >>
    /\ UNCHANGED << extractVars, reportVars >>
    /\ progress' = emitProgress(progress, 75)
    /\ UNCHANGED << compareVars, uploadVars >>

\* if (docsearchAuthenticated) { STEP 1, STEP 2 } else skip to the close
P3Collect ==
    /\ pc = "p3_collect"
    /\ IF docsearchAuthenticated
       THEN LET unique == CollectUnique(<<>>, results, 1)
            IN  /\ uniqueRecallsArray' = unique
                /\ recallToVinsMap' =
                       [r \in SeqToSet(unique) |-> VinsHaving(r, results, 1)]
                /\ results' = [k \in DOMAIN results |->
                       IF HasRecallList(results[k])
                       THEN [results[k] EXCEPT !.docsearchDataByRecall = <<>>]
                       ELSE results[k]]
                /\ pc' = "p3_loop"
       ELSE /\ pc' = "p3_close"
            /\ UNCHANGED << uniqueRecallsArray, recallToVinsMap, results >>
    /\ UNCHANGED << vinNumbers, fordPage, fordOrphans, excelData, phase1Vars,
                    docsearchInitialized, docsearchAuthenticated, docOpen,
                    docIsAuthenticated, recallToDocsearchDataMap, j, docCall,
                    docOrphans, resolveCalls,
                    recallsToCheck >>
    /\ UNCHANGED << extractVars, reportVars >>
    /\ progress' = IF docsearchAuthenticated THEN emitProgress(progress, 75)
                         ELSE progress
    /\ UNCHANGED << compareVars, uploadVars >>

\* for (let i = 0; i < uniqueRecallsArray.length; i++) {
\*   const scrapingPromise = docsearchScraper.searchVinData(recallNumber)
P3Call ==
    /\ pc = "p3_loop"
    /\ j < Len(uniqueRecallsArray)
    /\ docCall' = [recallNumber |-> uniqueRecallsArray[j + 1]]
    /\ resolveCalls' = Append(resolveCalls, uniqueRecallsArray[j + 1])
    /\ pc' = "p3_race"
    /\ UNCHANGED << vinNumbers, results, fordPage, fordOrphans, excelData, phase1Vars,
                    docsearchInitialized, docsearchAuthenticated, docOpen,
                    docIsAuthenticated, uniqueRecallsArray, recallToVinsMap,
                    recallToDocsearchDataMap, j, docOrphans,
                    recallsToCheck >>
    /\ UNCHANGED << extractVars, reportVars >>
    /\ progress' = emitProgress(progress,
                             docsearchProgressPercent(j, Len(uniqueRecallsArray)))
    /\ UNCHANGED << compareVars, uploadVars >>

\* After the try/catch: the restart cadence test, then the delay test.
P3AfterStore ==
    IF (j + 1) % DOCSEARCH_BATCH_SIZE = 0 /\ j < Len(uniqueRecallsArray) - 1
       /\ docsearchInitialized
    THEN "p3_b_close"
    ELSE IF j < Len(uniqueRecallsArray) - 1 THEN "p3_delay" ELSE "p3_next"

\* const docsearchData = await Promise.race([...]): the search settles first.
P3Settle ==
    /\ pc = "p3_race"
    /\ docCall # NULL
    /\ \E docsearchData \in SearchOutcomes(docCall.recallNumber) :
        recallToDocsearchDataMap' =
            MapSet(recallToDocsearchDataMap, docCall.recallNumber, docsearchData)
    /\ docCall' = NULL
    /\ pc' = P3AfterStore
    /\ UNCHANGED << vinNumbers, results, fordPage, fordOrphans, excelData, phase1Vars,
                    docsearchInitialized, docsearchAuthenticated, docOpen,
                    docIsAuthenticated, uniqueRecallsArray, recallToVinsMap,
                    j, docOrphans, resolveCalls,
                    recallsToCheck >>
    /\ UNCHANGED << extractVars, reportVars >>
    /\ UNCHANGED << compareVars, uploadVars, progress >>

\* The 60 second timer rejects first: the catch stores the error object and
\* the search keeps running.
P3Timeout ==
    /\ pc = "p3_race"
    /\ docCall # NULL
    /\ recallToDocsearchDataMap' =
           MapSet(recallToDocsearchDataMap, docCall.recallNumber,
                  DocFailure(docCall.recallNumber, MsgRace))
    /\ docOrphans' = docOrphans + 1
    /\ docCall' = NULL
    /\ pc' = P3AfterStore
    /\ UNCHANGED << vinNumbers, results, fordPage, fordOrphans, excelData, phase1Vars,
                    docsearchInitialized, docsearchAuthenticated, docOpen,
                    docIsAuthenticated, uniqueRecallsArray, recallToVinsMap,
                    j, resolveCalls,
                    recallsToCheck >>
    /\ UNCHANGED << extractVars, reportVars >>
    /\ UNCHANGED << compareVars, uploadVars, progress >>

\* A searchVinData nobody awaits any more returns.
DocOrphanSettle ==
    /\ docOrphans > 0
    /\ docOrphans' = docOrphans - 1
    /\ UNCHANGED << vinNumbers, pc, results, fordPage, fordOrphans, excelData,
                    phase1Vars, docsearchInitialized, docsearchAuthenticated, docOpen,
                    docIsAuthenticated, uniqueRecallsArray, recallToVinsMap,
                    recallToDocsearchDataMap, j, docCall, resolveCalls,
                    recallsToCheck >>
    /\ UNCHANGED << extractVars, reportVars >>
    /\ UNCHANGED << compareVars, uploadVars, progress >>

\* await docsearchScraper.close(): the browser is closed, isAuthenticated stays
P3BatchClose ==
    /\ pc = "p3_b_close"
    /\ docOpen' = FALSE
    /\ pc' = "p3_b_init"
    /\ UNCHANGED << vinNumbers, results, fordPage, fordOrphans, excelData, phase1Vars,
                    docsearchInitialized, docsearchAuthenticated,
                    docIsAuthenticated, uniqueRecallsArray, recallToVinsMap,
                    recallToDocsearchDataMap, j, docCall, docOrphans, resolveCalls,
                    recallsToCheck >>
    /\ UNCHANGED << extractVars, reportVars >>
    /\ UNCHANGED << compareVars, uploadVars, progress >>

\* const reinitialized = await docsearchScraper.initialize()
P3BatchInit ==
    /\ pc = "p3_b_init"
    /\ \E reinitialized \in BOOLEAN :
        /\ docOpen' = reinitialized
        /\ pc' = IF reinitialized THEN "p3_b_check"
                 ELSE IF j < Len(uniqueRecallsArray) - 1 THEN "p3_delay" ELSE "p3_next"
    /\ UNCHANGED << vinNumbers, results, fordPage, fordOrphans, excelData, phase1Vars,
                    docsearchInitialized, docsearchAuthenticated,
                    docIsAuthenticated, uniqueRecallsArray, recallToVinsMap,
                    recallToDocsearchDataMap, j, docCall, docOrphans, resolveCalls,
                    recallsToCheck >>
    /\ UNCHANGED << extractVars, reportVars >>
    /\ UNCHANGED << compareVars, uploadVars, progress >>

\* const checkSignedIn = await checkIfAlreadySignedIn(); if (!checkSignedIn) break
P3BatchCheck ==
    /\ pc = "p3_b_check"
    /\ \E checkSignedIn \in BOOLEAN :
        pc' = IF ~checkSignedIn THEN "p3_map"
              ELSE IF j < Len(uniqueRecallsArray) - 1 THEN "p3_delay" ELSE "p3_next"
    /\ UNCHANGED << vinNumbers, results, fordPage, fordOrphans, excelData, phase1Vars,
                    docsearchInitialized, docsearchAuthenticated, docOpen,
                    docIsAuthenticated, uniqueRecallsArray, recallToVinsMap,
                    recallToDocsearchDataMap, j, docCall, docOrphans, resolveCalls,
                    recallsToCheck >>
    /\ UNCHANGED << extractVars, reportVars >>
    /\ UNCHANGED << compareVars, uploadVars, progress >>

\* await new Promise(resolve => setTimeout(resolve, 3000)), between requests
P3Delay ==
    /\ pc = "p3_delay"
    /\ pc' = "p3_next"
    /\ UNCHANGED << vinNumbers, results, fordPage, fordOrphans, excelData, phase1Vars,
                    phase3Vars >>
    /\ UNCHANGED << extractVars, reportVars >>
    /\ UNCHANGED << compareVars, uploadVars, progress >>

\* i++
P3Next ==
    /\ pc = "p3_next"
    /\ j' = j + 1
    /\ pc' = "p3_loop"
    /\ UNCHANGED << vinNumbers, results, fordPage, fordOrphans, excelData, phase1Vars,
                    docsearchInitialized, docsearchAuthenticated, docOpen,
                    docIsAuthenticated, uniqueRecallsArray, recallToVinsMap,
                    recallToDocsearchDataMap, docCall, docOrphans, resolveCalls,
                    recallsToCheck >>
    /\ UNCHANGED << extractVars, reportVars >>
    /\ UNCHANGED << compareVars, uploadVars, progress >>

\* The loop condition fails.
P3LoopEnd ==
    /\ pc = "p3_loop"
    /\ j >= Len(uniqueRecallsArray)
    /\ pc' = "p3_map"
    /\ UNCHANGED << vinNumbers, results, fordPage, fordOrphans, excelData, phase1Vars,
                    phase3Vars >>
    /\ UNCHANGED << extractVars, reportVars >>
    /\ UNCHANGED << compareVars, uploadVars, progress >>

\* A STEP 4 that gives a recall number without stored data an EA number.
MappedDataAssumed(recallNumber, dataMap) ==
    IF recallNumber \in DOMAIN dataMap THEN dataMap[recallNumber]
    ELSE DocSuccess(recallNumber, TRUE, EaNumberFound)

\* STEP 4: the data stored for recallNumber, or the error object.
MappedData(recallNumber, dataMap) ==
    IF recallNumber \in DOMAIN dataMap THEN dataMap[recallNumber]
    ELSE DocFailure(recallNumber, MsgNotAvailable)

\* A fan-out that reaches only the first VIN of each recall number's list.
MapBackFirstVinOnly(res, vinsMap, dataMap) ==
    [k \in DOMAIN res |->
        LET mine == { r \in DOMAIN vinsMap :
                        Len(vinsMap[r]) > 0 /\ vinsMap[r][1] = res[k].vin }
        IN  IF mine = {} THEN res[k]
            ELSE [res[k] EXCEPT !.docsearchDataByRecall =
                     [r \in DOMAIN @ \cup mine |->
                         IF r \in mine THEN MappedData(r, dataMap) ELSE @[r]]]]

\* for (const [recallNumber, vins] of recallToVinsMap.entries())
\*   for (const { vin, result } of vins) result.docsearchDataByRecall.set(...)
MapBack(res, vinsMap, dataMap) ==
    [k \in DOMAIN res |->
        LET mine == { r \in DOMAIN vinsMap : SeqContains(vinsMap[r], res[k].vin) }
        IN  IF mine = {} THEN res[k]
            ELSE [res[k] EXCEPT !.docsearchDataByRecall =
                     [r \in DOMAIN @ \cup mine |->
                         IF r \in mine THEN MappedData(r, dataMap) ELSE @[r]]]]

P3Map ==
    /\ pc = "p3_map"
    /\ results' = MapBack(results, recallToVinsMap, recallToDocsearchDataMap)
    /\ pc' = "p3_close"
    /\ UNCHANGED << vinNumbers, fordPage, fordOrphans, excelData, phase1Vars,
                    phase3Vars >>
    /\ UNCHANGED << extractVars, reportVars >>
    /\ UNCHANGED << compareVars, uploadVars, progress >>

\* if (docsearchInitialized) await docsearchScraper.close()
P3Close ==
    /\ pc = "p3_close"
    /\ docOpen' = IF docsearchInitialized THEN FALSE ELSE docOpen
    /\ pc' = "finally"
    /\ UNCHANGED << vinNumbers, results, fordPage, fordOrphans, excelData, phase1Vars,
                    docsearchInitialized, docsearchAuthenticated,
                    docIsAuthenticated, uniqueRecallsArray, recallToVinsMap,
                    recallToDocsearchDataMap, j, docCall, docOrphans, resolveCalls,
                    recallsToCheck >>
    /\ UNCHANGED << extractVars, reportVars >>
    /\ UNCHANGED << compareVars, uploadVars, progress >>

\* finally { await fordScraper.close(); ... }
FinallyCloseFord ==
    /\ pc = "finally"
    /\ fordPage' = FALSE
    /\ pc' = "finally_doc"
    /\ UNCHANGED << vinNumbers, results, fordOrphans, excelData, phase1Vars,
                    phase3Vars >>
    /\ UNCHANGED << extractVars, reportVars >>
    /\ UNCHANGED << compareVars, uploadVars, progress >>

\* finally { ...; await docsearchScraper.close() }  return results
FinallyCloseDoc ==
    /\ pc = "finally_doc"
    /\ docOpen' = FALSE
    /\ pc' = "returned"
    /\ UNCHANGED << vinNumbers, results, fordPage, fordOrphans, excelData, phase1Vars,
                    docsearchInitialized, docsearchAuthenticated,
                    docIsAuthenticated, uniqueRecallsArray, recallToVinsMap,
                    recallToDocsearchDataMap, j, docCall, docOrphans, resolveCalls,
                    recallsToCheck >>
    /\ UNCHANGED << extractVars, reportVars >>
    /\ UNCHANGED << compareVars, uploadVars, progress >>

\* ------------------------------------------------------ createOutputExcel
\* The sheet rows the VINs came from: an ordered list of <<column, value>>.
OriginalRowOf(vin) ==
    IF vin = 1
    THEN << <<"ASSET NO", "A100">>, <<"YEAR", "2019">>, <<"MODEL", "F-150">>,
            <<"MANUFACTURER", "FORD">>, <<"STATION", "ATL">>,
            <<"Work Order", "WO-7001">>, <<"WORK ORDER STATUS", "OPEN">> >>
    ELSE IF vin = 2
    THEN << <<"EQ EQUIP NO", "A200">>, <<"Year", "2021">>, <<"model ", "TRANSIT">>,
            <<"MAKE", "FORD">>, <<"LOC", "JFK">>, <<"WO", "">> >>
    ELSE << <<"asset  no", "A300">>, <<"STATION", "">>, <<"Location", "MSP">>,
            <<"WORK ORDER", "--">>, <<"WO Status", " ">> >>

\* str.toString().trim().toUpperCase().replace(/\s+/g, ' ') on the column names in use
normalize(str) ==
    CASE str = "Year" -> "YEAR"
      [] str = "model " -> "MODEL"
      [] str = "asset  no" -> "ASSET NO"
      [] str = "Location" -> "LOCATION"
      [] str = "Work Order" -> "WORK ORDER"
      [] str = "WO Status" -> "WO STATUS"
      [] str = "Work Order Status" -> "WORK ORDER STATUS"
      [] str = "WorkOrder" -> "WORKORDER"
      [] str = "WorkOrderStatus" -> "WORKORDERSTATUS"
      [] str = "WOStatus" -> "WOSTATUS"
      [] OTHER -> str

\* row[key], with "" for a column the row lacks (undefined is falsy as "" is)
Cell(row, key) ==
    IF \E k \in DOMAIN row : row[k][1] = key
    THEN row[CHOOSE k \in DOMAIN row : row[k][1] = key][2]
    ELSE ""

RECURSIVE FirstTruthy(_, _, _)
\* if (row[primaryKey]) return ...; for (const key of alternateKeys) if (row[key]) return ...
FirstTruthy(row, keys, k) ==
    IF k > Len(keys) THEN ""
    ELSE IF Cell(row, keys[k]) # "" THEN Cell(row, keys[k])
    ELSE FirstTruthy(row, keys, k + 1)

RECURSIVE FirstNormalized(_, _, _)
\* for (const [key, value] of Object.entries(row)): the first column whose
\* normalized name is a normalized key; its value is returned even when empty
FirstNormalized(row, keys, k) ==
    IF k > Len(row) THEN ""
    ELSE IF \E n \in DOMAIN keys : normalize(row[k][1]) = normalize(keys[n])
    THEN row[k][2]
    ELSE FirstNormalized(row, keys, k + 1)

\* keys = <<primaryKey>> \o alternateKeys
getColumnValue(row, keys) ==
    IF FirstTruthy(row, keys, 1) # "" THEN FirstTruthy(row, keys, 1)
    ELSE FirstNormalized(row, keys, 1)

\* String.prototype.trim on the texts in use
trim(str) ==
    CASE str = " " -> ""
      [] str = "model " -> "model"
      [] OTHER -> str

\* item.fordData.recallData.recalls.some(recall => ...)
hasRecalls(item) ==
    /\ item.fordData # NULL
    /\ "recalls" \in DOMAIN item.fordData
    /\ Len(item.fordData.recalls) > 0
    /\ \E k \in DOMAIN item.fordData.recalls :
          /\ isValidRecall(item.fordData.recalls[k])
          /\ trim(item.fordData.recalls[k].recallNumber) # ""

\* the recalls a row is created for (the filter of the row expansion)
rowRecalls(item) ==
    IF item.fordData # NULL /\ "recalls" \in DOMAIN item.fordData
    THEN SelectSeq(item.fordData.recalls, isValidRecall)
    ELSE <<>>

\* let eaNumber = 'NONE'; if (docsearchData && docsearchData.eaNumber) ...
eaNumberOf(item, recallNumber) ==
    IF recallNumber \in DOMAIN item.docsearchDataByRecall
       /\ item.docsearchDataByRecall[recallNumber].eaNumber # NullEa
    THEN item.docsearchDataByRecall[recallNumber].eaNumber
    ELSE "NONE"

workOrderStatusOf(row) ==
    LET status == getColumnValue(row, <<"WORK ORDER STATUS", "WO STATUS", "WO Status",
                      "Work Order Status", "WORK ORDER STAT", "WO STAT",
                      "WorkOrderStatus", "WORKORDERSTATUS", "WOStatus", "WOSTATUS">>)
    IN  IF status # "" /\ trim(status) # "" THEN status ELSE "NONE"

ReportRow(item, recall) ==
    LET row == OriginalRowOf(item.vin)
    IN  [ assetNo |-> getColumnValue(row, <<"ASSET NO", "EQ EQUIP NO", "EQ EQUIPMENT NO",
                                            "EQUIPMENT NO", "EQUIP NO">>),
          year |-> getColumnValue(row, <<"YEAR">>),
          model |-> getColumnValue(row, <<"MODEL">>),
          manufacturer |-> getColumnValue(row, <<"MANUFACTURER", "MAKE">>),
          station |-> getColumnValue(row, <<"STATION", "LOC ASSIGN PM LOC", "LOC",
                                            "PM LOC", "LOCATION">>),
          vin |-> item.vin,
          recallNumber |-> recall.recallNumber,
          type |-> recall.type,
          eaNumber |-> eaNumberOf(item, recall.recallNumber),
          workOrder |-> getColumnValue(row, <<"Work Order", "WORK ORDER", "WO",
                            "WORK ORDER NO", "WORK ORDER NUMBER", "WO NUMBER",
                            "WorkOrder", "WORKORDER">>),
          workOrderStatus |-> workOrderStatusOf(row) ]

\* A row expansion that writes one row per VIN, for its first valid recall.
RowsOfFirstRecall(item) ==
    IF hasRecalls(item)
    THEN << ReportRow(item, rowRecalls(item)[1]) >>
    ELSE <<>>

\* for (const recall of validRecalls) excelData.push(row)
RowsOf(item) ==
    IF hasRecalls(item)
    THEN [k \in 1..Len(rowRecalls(item)) |-> ReportRow(item, rowRecalls(item)[k])]
    ELSE <<>>

RECURSIVE ExpandRows(_, _)
\* scrapedData.forEach((item, index) => ...), from item k on
ExpandRows(scrapedData, k) ==
    IF k > Len(scrapedData) THEN <<>>
    ELSE RowsOf(scrapedData[k]) \o ExpandRows(scrapedData, k + 1)

\* ------------------------------------------------ the sheets built from excelData
\* The texts the report sorts, in the order of String.prototype.localeCompare.
CollationOrder ==
    << "", "--", "15-479030-03 rev C", "2019", "2021", "22L05", "23S10", "24V684",
       "A100", "A200", "A300", "ATL", "F-150", "JFK", "MSP", "NONE", "Recall",
       MayBeAvailable, "Safety", "TRANSIT", "WO-7001" >>

collationRank(str) == CHOOSE k \in DOMAIN CollationOrder : CollationOrder[k] = str

\* a.localeCompare(b): negative, zero or positive
localeCompare(a, b) == collationRank(a) - collationRank(b)

\* String.prototype.toUpperCase on the texts in use
toUpperCase(str) ==
    CASE str = "15-479030-03 rev C" -> "15-479030-03 REV C"
      [] OTHER -> str

\* Array.prototype.sort(compareFn), a stable sort: an element goes behind the
\* elements that compare smaller and behind the equal ones that precede it
sort(array, compareFn(_, _)) ==
    LET position(k) ==
            1 + Cardinality({ n \in DOMAIN array :
                                \/ compareFn(array[n], array[k]) < 0
                                \/ compareFn(array[n], array[k]) = 0 /\ n < k })
    IN  [p \in DOMAIN array |-> array[CHOOSE k \in DOMAIN array : position(k) = p]]

RECURSIVE recallGroupKeys(_, _, _)
\* the keys of recallGroups in insertion order, over rows[k..]
recallGroupKeys(rows, k, keys) ==
    IF k > Len(rows) THEN keys
    ELSE recallGroupKeys(rows, k + 1,
             IF rows[k].recallNumber = "" \/ SeqContains(keys, rows[k].recallNumber)
             THEN keys ELSE Append(keys, rows[k].recallNumber))

\* recallGroups.get(recallNumber): the rows of the number, in sheet order
vehiclesOf(rows, recallNumber) ==
    SelectSeq(rows, LAMBDA row : row.recallNumber = recallNumber)

\* The groups of more than one row in the order of their first rows.
multiOccurrenceRecallsUnsorted(rows) ==
    SelectSeq(recallGroupKeys(rows, 1, <<>>),
              LAMBDA num : Len(vehiclesOf(rows, num)) > 1)

\* multiOccurrenceRecalls and singleOccurrenceRecalls, each sorted by number
multiOccurrenceRecalls(rows) ==
    sort(SelectSeq(recallGroupKeys(rows, 1, <<>>),
                   LAMBDA num : Len(vehiclesOf(rows, num)) > 1), localeCompare)

singleOccurrenceRecalls(rows) ==
    sort(SelectSeq(recallGroupKeys(rows, 1, <<>>),
                   LAMBDA num : ~(Len(vehiclesOf(rows, num)) > 1)), localeCompare)

RECURSIVE vehiclesOfAll(_, _, _)
\* for (const {recallNumber, vehicles} of groups) for (const vehicle of vehicles) push
vehiclesOfAll(rows, groups, k) ==
    IF k > Len(groups) THEN <<>>
    ELSE vehiclesOf(rows, groups[k]) \o vehiclesOfAll(rows, groups, k + 1)

\* SHEET 1: the rows of the multi-occurrence groups, then of the single ones
groupedDataOf(rows) ==
    vehiclesOfAll(rows, multiOccurrenceRecalls(rows), 1)
        \o vehiclesOfAll(rows, singleOccurrenceRecalls(rows), 1)

RECURSIVE rowGroupsFrom(_, _, _, _, _)
\* for (let i = 0; i < groupedData.length; i++): a change of recall number
\* saves the previous group {startRow, endRow: i} and starts one at row i + 1
\* (row 0 is the header); then the last group is saved with endRow: length.
\* currentRecallNumber is << >> for null, groupStartRow is 0 for null.
rowGroupsFrom(sheet, idx, currentRecallNumber, groupStartRow, rowGroups) ==
    LET saved(endRow) ==
            IF currentRecallNumber # <<>> /\ groupStartRow # 0
            THEN Append(rowGroups, [startRow |-> groupStartRow, endRow |-> endRow,
                                    recallNumber |-> currentRecallNumber[1]])
            ELSE rowGroups
    IN  IF idx >= Len(sheet) THEN saved(Len(sheet))
        ELSE IF << sheet[idx + 1].recallNumber >> # currentRecallNumber
        THEN rowGroupsFrom(sheet, idx + 1, << sheet[idx + 1].recallNumber >>,
                           idx + 1, saved(idx))
        ELSE rowGroupsFrom(sheet, idx + 1, currentRecallNumber, groupStartRow, rowGroups)

rowGroupsOf(sheet) == rowGroupsFrom(sheet, 0, <<>>, 0, <<>>)

\* groupedWorksheet['!rows']: row 0 {level: 0, hidden: false}; rows 1..length
\* start as {}; the first row of a group gets level 1, visible; the rows
\* firstRowIndex + 1 .. endRow - 1 get level 2, hidden. A sheet without rows
\* gets no '!rows'.
outlineRowsOf(sheet) ==
    IF sheet = <<>> THEN <<>>
    ELSE LET groups == rowGroupsOf(sheet)
         IN  [r \in 0..Len(sheet) |->
                IF \E g \in DOMAIN groups :
                      r >= groups[g].startRow + 1 /\ r < groups[g].endRow
                THEN [level |-> 2, hidden |-> TRUE]
                ELSE IF r # 0 /\ \E g \in DOMAIN groups : r = groups[g].startRow
                THEN [level |-> 1, hidden |-> FALSE]
                ELSE IF r = 0 THEN [level |-> 0, hidden |-> FALSE]
                ELSE <<>>]

\* A test that takes only the empty value for a missing EA number.
hasNoEAWhenEmpty(eaNumber) == eaNumber = "" \/ trim(eaNumber) = ""

\* !eaNumber || trim() === '' || trim().toUpperCase() === 'NONE'
hasNoEA(eaNumber) ==
    eaNumber = "" \/ trim(eaNumber) = "" \/ toUpperCase(trim(eaNumber)) = "NONE"

needsEARow(row) ==
    [recallNumber |-> row.recallNumber, type |-> IF row.type = "" THEN "Recall" ELSE row.type]

RECURSIVE needsEAFrom(_, _, _)
\* one row per (recall number, type) without EA number, first occurrence first
needsEAFrom(rows, k, acc) ==
    IF k > Len(rows) THEN acc
    ELSE needsEAFrom(rows, k + 1,
             IF /\ hasNoEA(rows[k].eaNumber)
                /\ rows[k].recallNumber # ""
                /\ ~SeqContains(acc, needsEARow(rows[k]))
             THEN Append(acc, needsEARow(rows[k])) ELSE acc)

compareNeedsEA(a, b) ==
    IF localeCompare(a.recallNumber, b.recallNumber) # 0
    THEN localeCompare(a.recallNumber, b.recallNumber)
    ELSE localeCompare(a.type, b.type)

\* The pairs in the order of their first rows.
needsEADataUnsorted(rows) == needsEAFrom(rows, 1, <<>>)

\* SHEET 3
needsEADataOf(rows) == sort(needsEAFrom(rows, 1, <<>>), compareNeedsEA)

hasEA(eaNumber) ==
    eaNumber # "" /\ trim(eaNumber) # "" /\ toUpperCase(trim(eaNumber)) # "NONE"

\* !workOrder || trim() === '' || trim().toUpperCase() === 'NONE'
hasNoWO(workOrder) ==
    workOrder = "" \/ trim(workOrder) = "" \/ toUpperCase(trim(workOrder)) = "NONE"

needsWORow(row) ==
    [eaNumber |-> row.eaNumber, assetNo |-> row.assetNo, year |-> row.year,
     model |-> row.model, station |-> row.station, vin |-> row.vin]

compareNeedsWO(a, b) ==
    IF localeCompare(a.eaNumber, b.eaNumber) # 0
    THEN localeCompare(a.eaNumber, b.eaNumber)
    ELSE localeCompare(a.assetNo, b.assetNo)

\* SHEET 4
needsWODataOf(rows) ==
    LET picked == SelectSeq(rows, LAMBDA row : hasEA(row.eaNumber) /\ hasNoWO(row.workOrder))
    IN  sort([k \in DOMAIN picked |-> needsWORow(picked[k])], compareNeedsWO)

\* processExcelFile: await createOutputExcel(scrapedDataWithRows, outputPath)
\* A builder that appends to the rows of an earlier call.
BuildSheetsAccumulating(scrapedData) ==
    /\ excelData' = excelData \o ExpandRows(scrapedData, 1)
    /\ groupedData' = groupedDataOf(excelData')
    /\ needsEAData' = needsEADataOf(excelData')
    /\ needsWOData' = needsWODataOf(excelData')

\* createOutputExcel(scrapedData, outputPath): the rows of the four sheets,
\* each array created by the call.
BuildSheets(scrapedData) ==
    /\ excelData' = ExpandRows(scrapedData, 1)
    /\ groupedData' = groupedDataOf(excelData')
    /\ needsEAData' = needsEADataOf(excelData')
    /\ needsWOData' = needsWODataOf(excelData')

CreateOutputExcel ==
    /\ pc = "returned"
    /\ BuildSheets(results)
    /\ pc' = "done"
    /\ UNCHANGED << vinNumbers, results, fordPage, fordOrphans, phase1Vars, phase3Vars >>
    /\ UNCHANGED extractVars
    /\ progress' = emitProgress(progress, 90)
    /\ UNCHANGED << compareVars, uploadVars >>

\* A second call of createOutputExcel with the same scrapedData.
CreateOutputExcelAgain ==
    /\ pc = "done"
    /\ BuildSheets(results)
    /\ pc' = "rebuilt"
    /\ UNCHANGED << vinNumbers, results, fordPage, fordOrphans, phase1Vars, phase3Vars >>
    /\ UNCHANGED extractVars
    /\ UNCHANGED << compareVars, uploadVars, progress >>

\* ------------------------------------- src/server.js: the other scrapeVinData
\* It has no retry loop in Phase 1 and looks up every (VIN, recall) pair in
\* Phase 3.  Its initialize, Phase 2, push, cadence, delay and finally steps
\* read as those above and are shared.
S1LoopHead ==
    /\ pc = "p1_loop"
    /\ i < Len(vinNumbers)
    /\ vinResult' = NewVinResult(vinNumbers[i + 1])
    /\ pc' = IF fordInitialized THEN "s1_call" ELSE "p1_push"
    /\ UNCHANGED << vinNumbers, i, fordInitialized, retryCount, scrapingSuccess,
                    errorMessage, results, fordPage, fordCall, fordOrphans,
                    phase3Vars, excelData, historyVars >>
    /\ UNCHANGED << extractVars, reportVars >>
    /\ progress' = emitProgress(progress, fordProgressPercent(i, Len(vinNumbers)))
    /\ UNCHANGED << compareVars, uploadVars >>

\* const scrapingPromise = fordScraper.scrapeVinRecallData(vin)
S1Call ==
    /\ pc = "s1_call"
    /\ fordCall' = [vin |-> vinResult.vin, rc |-> 0,
                    st |-> IF fordPage THEN "run" ELSE "notinit"]
    /\ pc' = "s1_race"
    /\ UNCHANGED << vinNumbers, i, fordInitialized, retryCount, scrapingSuccess,
                    errorMessage, vinResult, results, fordPage, fordOrphans,
                    phase3Vars, excelData, historyVars >>
    /\ UNCHANGED << extractVars, reportVars >>
    /\ UNCHANGED << compareVars, uploadVars, progress >>

\* vinResult.fordData = await Promise.race([...]): whatever the lookup returns
S1Settle ==
    /\ pc = "s1_race"
    /\ fordCall # NULL
    /\ \E fd \in LookupOutcomes(fordCall) \cup
                 (IF fordCall.st = "cooldown"
                  THEN { FordFailure(fordCall.vin, MsgReinit) } ELSE {}) :
        vinResult' = [vinResult EXCEPT !.fordData = fd]
    /\ fordPage' = IF fordCall.st = "cooldown" THEN LookupReinitPage(FALSE) ELSE fordPage
    /\ fordCall' = NULL
    /\ pc' = "p1_push"
    /\ UNCHANGED << vinNumbers, i, fordInitialized, retryCount, scrapingSuccess,
                    errorMessage, results, fordOrphans, phase3Vars, excelData, historyVars >>
    /\ UNCHANGED << extractVars, reportVars >>
    /\ UNCHANGED << compareVars, uploadVars, progress >>

\* catch (error): the timer won the race
S1Timeout ==
    /\ pc = "s1_race"
    /\ fordCall # NULL
    /\ fordCall.st \in {"run", "cooldown"}
    /\ fordOrphans' = fordOrphans \cup {fordCall}
    /\ fordCall' = NULL
    /\ vinResult' = [vinResult EXCEPT !.fordData = FordFailure(vinResult.vin, MsgRace)]
    /\ pc' = "p1_push"
    /\ UNCHANGED << vinNumbers, i, fordInitialized, retryCount, scrapingSuccess,
                    errorMessage, results, fordPage, phase3Vars, excelData, historyVars >>
    /\ UNCHANGED << extractVars, reportVars >>
    /\ UNCHANGED << compareVars, uploadVars, progress >>

RECURSIVE PairsToCheck(_, _)
\* recallsToCheck.push({recallNumber, vin, result}) over results[k..]; the
\* result is named by its index in results
PairsToCheck(res, k) ==
    IF k > Len(res) THEN <<>>
    ELSE [n \in 1..Len(validRecalls(res[k])) |->
             [recallNumber |-> validRecalls(res[k])[n].recallNumber,
              vin |-> res[k].vin, result |-> k]]
         \o PairsToCheck(res, k + 1)

S3Collect ==
    /\ pc = "p3_collect"
    /\ IF docsearchAuthenticated
       THEN /\ recallsToCheck' = PairsToCheck(results, 1)
            /\ results' = [k \in DOMAIN results |->
                   IF HasRecallList(results[k])
                   THEN [results[k] EXCEPT !.docsearchDataByRecall = <<>>]
                   ELSE results[k]]
            /\ pc' = "s3_loop"
       ELSE /\ pc' = "p3_close"
            /\ UNCHANGED << recallsToCheck, results >>
    /\ UNCHANGED << vinNumbers, fordPage, fordOrphans, excelData, phase1Vars,
                    docsearchInitialized, docsearchAuthenticated, docOpen,
                    docIsAuthenticated, uniqueRecallsArray, recallToVinsMap,
                    recallToDocsearchDataMap, j, docCall, docOrphans, resolveCalls >>
    /\ UNCHANGED << extractVars, reportVars >>
    /\ progress' = IF docsearchAuthenticated THEN emitProgress(progress, 75)
                         ELSE progress
    /\ UNCHANGED << compareVars, uploadVars >>

\* const { recallNumber, vin, result } = recallsToCheck[i]; searchVinData(recallNumber)
S3Call ==
    /\ pc = "s3_loop"
    /\ j < Len(recallsToCheck)
    /\ docCall' = recallsToCheck[j + 1]
    /\ resolveCalls' = Append(resolveCalls, recallsToCheck[j + 1].recallNumber)
    /\ pc' = "s3_race"
    /\ UNCHANGED << vinNumbers, results, fordPage, fordOrphans, excelData, phase1Vars,
                    docsearchInitialized, docsearchAuthenticated, docOpen,
                    docIsAuthenticated, uniqueRecallsArray, recallToVinsMap,
                    recallToDocsearchDataMap, j, docOrphans, recallsToCheck >>
    /\ UNCHANGED << extractVars, reportVars >>
    /\ progress' = emitProgress(progress,
                             docsearchProgressPercent(j, Len(recallsToCheck)))
    /\ UNCHANGED << compareVars, uploadVars >>

S3AfterDelayTest == IF j < Len(recallsToCheck) - 1 THEN "s3_delay" ELSE "s3_next"

S3AfterStore ==
    IF (j + 1) % DOCSEARCH_BATCH_SIZE = 0 /\ j < Len(recallsToCheck) - 1
       /\ docsearchInitialized
    THEN "s3_b_close" ELSE S3AfterDelayTest

\* result.docsearchDataByRecall.set(recallNumber, docsearchData)
S3Settle ==
    /\ pc = "s3_race"
    /\ docCall # NULL
    /\ \E docsearchData \in SearchOutcomes(docCall.recallNumber) :
        results' = [results EXCEPT ![docCall.result].docsearchDataByRecall =
                        MapSet(@, docCall.recallNumber, docsearchData)]
    /\ docCall' = NULL
    /\ pc' = S3AfterStore
    /\ UNCHANGED << vinNumbers, fordPage, fordOrphans, excelData, phase1Vars,
                    docsearchInitialized, docsearchAuthenticated, docOpen,
                    docIsAuthenticated, uniqueRecallsArray, recallToVinsMap,
                    recallToDocsearchDataMap, j, docOrphans, resolveCalls,
                    recallsToCheck >>
    /\ UNCHANGED << extractVars, reportVars >>
    /\ UNCHANGED << compareVars, uploadVars, progress >>

\* catch (error): result.docsearchDataByRecall.set(recallNumber, {success: false, ...})
S3Timeout ==
    /\ pc = "s3_race"
    /\ docCall # NULL
    /\ results' = [results EXCEPT ![docCall.result].docsearchDataByRecall =
                       MapSet(@, docCall.recallNumber,
                              DocFailure(docCall.recallNumber, MsgRace))]
    /\ docOrphans' = docOrphans + 1
    /\ docCall' = NULL
    /\ pc' = S3AfterStore
    /\ UNCHANGED << vinNumbers, fordPage, fordOrphans, excelData, phase1Vars,
                    docsearchInitialized, docsearchAuthenticated, docOpen,
                    docIsAuthenticated, uniqueRecallsArray, recallToVinsMap,
                    recallToDocsearchDataMap, j, resolveCalls, recallsToCheck >>
    /\ UNCHANGED << extractVars, reportVars >>
    /\ UNCHANGED << compareVars, uploadVars, progress >>

S3BatchClose ==
    /\ pc = "s3_b_close"
    /\ docOpen' = FALSE
    /\ pc' = "s3_b_init"
    /\ UNCHANGED << vinNumbers, results, fordPage, fordOrphans, excelData, phase1Vars,
                    docsearchInitialized, docsearchAuthenticated,
                    docIsAuthenticated, uniqueRecallsArray, recallToVinsMap,
                    recallToDocsearchDataMap, j, docCall, docOrphans, resolveCalls,
                    recallsToCheck >>
    /\ UNCHANGED << extractVars, reportVars >>
    /\ UNCHANGED << compareVars, uploadVars, progress >>

S3BatchInit ==
    /\ pc = "s3_b_init"
    /\ \E reinitialized \in BOOLEAN :
        /\ docOpen' = reinitialized
        /\ pc' = IF reinitialized THEN "s3_b_check" ELSE S3AfterDelayTest
    /\ UNCHANGED << vinNumbers, results, fordPage, fordOrphans, excelData, phase1Vars,
                    docsearchInitialized, docsearchAuthenticated,
                    docIsAuthenticated, uniqueRecallsArray, recallToVinsMap,
                    recallToDocsearchDataMap, j, docCall, docOrphans, resolveCalls,
                    recallsToCheck >>
    /\ UNCHANGED << extractVars, reportVars >>
    /\ UNCHANGED << compareVars, uploadVars, progress >>

\* if (!checkSignedIn) break: the loop is the last statement of Phase 3
S3BatchCheck ==
    /\ pc = "s3_b_check"
    /\ \E checkSignedIn \in BOOLEAN :
        pc' = IF ~checkSignedIn THEN "p3_close" ELSE S3AfterDelayTest
    /\ UNCHANGED << vinNumbers, results, fordPage, fordOrphans, excelData, phase1Vars,
                    phase3Vars >>
    /\ UNCHANGED << extractVars, reportVars >>
    /\ UNCHANGED << compareVars, uploadVars, progress >>

S3Delay ==
    /\ pc = "s3_delay"
    /\ pc' = "s3_next"
    /\ UNCHANGED << vinNumbers, results, fordPage, fordOrphans, excelData, phase1Vars,
                    phase3Vars >>
    /\ UNCHANGED << extractVars, reportVars >>
    /\ UNCHANGED << compareVars, uploadVars, progress >>

S3Next ==
    /\ pc = "s3_next"
    /\ j' = j + 1
    /\ pc' = "s3_loop"
    /\ UNCHANGED << vinNumbers, results, fordPage, fordOrphans, excelData, phase1Vars,
                    docsearchInitialized, docsearchAuthenticated, docOpen,
                    docIsAuthenticated, uniqueRecallsArray, recallToVinsMap,
                    recallToDocsearchDataMap, docCall, docOrphans, resolveCalls,
                    recallsToCheck >>
    /\ UNCHANGED << extractVars, reportVars >>
    /\ UNCHANGED << compareVars, uploadVars, progress >>

S3LoopEnd ==
    /\ pc = "s3_loop"
    /\ j >= Len(recallsToCheck)
    /\ pc' = "p3_close"
    /\ UNCHANGED << vinNumbers, results, fordPage, fordOrphans, excelData, phase1Vars,
                    phase3Vars >>
    /\ UNCHANGED << extractVars, reportVars >>
    /\ UNCHANGED << compareVars, uploadVars, progress >>

\* ------------------------------------------- processExcelFile: the extractor
\* A sheet row is the ordered list of <<column name, cell>> sheet_to_json
\* returns (empty cells are absent).  A cell is a number or a string; a string
\* is the sequence of its characters.

Str(chars) == [t |-> "string", chars |-> chars]
Num(n) == [t |-> "number", n |-> n]

Digits == << "0", "1", "2", "3", "4", "5", "6", "7", "8", "9" >>
isDigit(c) == \E k \in DOMAIN Digits : Digits[k] = c
DigitValue(c) == (CHOOSE k \in DOMAIN Digits : Digits[k] = c) - 1

RECURSIVE parseInt(_)
\* parseInt of a run of decimal digits
parseInt(chars) ==
    IF chars = <<>> THEN 0
    ELSE 10 * parseInt(SubSeq(chars, 1, Len(chars) - 1)) + DigitValue(chars[Len(chars)])

RECURSIVE NumberToString(_)
\* Number.prototype.toString of a non-negative integer
NumberToString(n) ==
    IF n < 10 THEN << Digits[n + 1] >>
    ELSE Append(NumberToString(n \div 10), Digits[(n % 10) + 1])

isWhiteSpace(c) == c \in {" ", "\t", "\n"}

RECURSIVE trimStart(_)
trimStart(chars) ==
    IF chars # <<>> /\ isWhiteSpace(chars[1]) THEN trimStart(Tail(chars)) ELSE chars

RECURSIVE trimEnd(_)
trimEnd(chars) ==
    IF chars # <<>> /\ isWhiteSpace(chars[Len(chars)])
    THEN trimEnd(SubSeq(chars, 1, Len(chars) - 1)) ELSE chars

\* value.toString().trim()
toStringTrim(cell) ==
    trimEnd(trimStart(IF cell.t = "number" THEN NumberToString(cell.n) ELSE cell.chars))

\* if (row[key]): a non-zero number or a non-empty string
truthy(cell) == IF cell.t = "number" THEN cell.n # 0 ELSE cell.chars # <<>>

\* The character class [A-HJ-NPR-Z0-9]
VinCharClass ==
    { "A", "B", "C", "D", "E", "F", "G", "H" } \cup { "J", "K", "L", "M", "N" }
    \cup { "P" } \cup { "R", "S", "T", "U", "V", "W", "X", "Y", "Z" }
    \cup { Digits[k] : k \in DOMAIN Digits }

\* The character test alone, without the length test.
isVinFormatAnyLength(value) == \A k \in DOMAIN value : value[k] \in VinCharClass

\* value.length === 17 && /^[A-HJ-NPR-Z0-9]{17}$/.test(value)
isVinFormat(value) ==
    /\ Len(value) = 17
    /\ \A k \in DOMAIN value : value[k] \in VinCharClass

hasKey(row, key) == \E k \in DOMAIN row : row[k][1] = key
\* row[key] of a column the row has
valueOf(row, key) == row[CHOOSE k \in DOMAIN row : row[k][1] = key][2]

\* ------------------------------------------------------------- parseDate
\* Timestamps are kept in whole days since 1970-01-01 (the source's
\* milliseconds / 86400000), for a host whose local time is UTC.
daysFromCivil(y, m, d) ==
    LET yy == IF m <= 2 THEN y - 1 ELSE y
        era == yy \div 400
        yoe == yy - era * 400
        mp == (m + 9) % 12
        doy == (153 * mp + 2) \div 5 + d - 1
        doe == yoe * 365 + yoe \div 4 - yoe \div 100 + doy
    IN  era * 146097 + doe - 719468

\* new Date(year, month, day): a year 0..99 is 1900 + year, and a month or
\* day out of range carries over.
newDate(year, month, day) ==
    LET y == IF year >= 0 /\ year <= 99 THEN 1900 + year ELSE year
    IN  daysFromCivil(y + month \div 12, (month % 12) + 1, 1) + (day - 1)

\* new Date(1899, 11, 30) plus dateValue * 86400000 ms
excelDate(n) == newDate(1899, 11, 30) + n

allDigits(chars) == \A k \in DOMAIN chars : isDigit(chars[k])

\* strValue.match(/^(\d{1,2})\/(\d{1,2})\/(\d{4})$/): the three groups, or <<>>
dateMatch(strValue) ==
    LET slashes == { k \in DOMAIN strValue : strValue[k] = "/" }
    IN  IF Cardinality(slashes) # 2 THEN <<>>
        ELSE LET s1 == CHOOSE k \in slashes : \A o \in slashes : k <= o
                 s2 == CHOOSE k \in slashes : \A o \in slashes : k >= o
                 g1 == SubSeq(strValue, 1, s1 - 1)
                 g2 == SubSeq(strValue, s1 + 1, s2 - 1)
                 g3 == SubSeq(strValue, s2 + 1, Len(strValue))
             IN  IF /\ Len(g1) \in 1..2 /\ Len(g2) \in 1..2 /\ Len(g3) = 4
                    /\ allDigits(g1) /\ allDigits(g2) /\ allDigits(g3)
                 THEN << g1, g2, g3 >>
                 ELSE <<>>

daysInMonth(y, m) == daysFromCivil(y + m \div 12, (m % 12) + 1, 1) - daysFromCivil(y, m, 1)

\* new Date(strValue) for the texts of the sheet: YYYY-MM-DD of a calendar
\* day is that day (UTC); any other text here is an Invalid Date (NULL).
nativeDate(strValue) ==
    IF /\ Len(strValue) = 10 /\ strValue[5] = "-" /\ strValue[8] = "-"
       /\ allDigits(SubSeq(strValue, 1, 4)) /\ allDigits(SubSeq(strValue, 6, 7))
       /\ allDigits(SubSeq(strValue, 9, 10))
    THEN LET y == parseInt(SubSeq(strValue, 1, 4))
             m == parseInt(SubSeq(strValue, 6, 7))
             d == parseInt(SubSeq(strValue, 9, 10))
         IN  IF m \in 1..12 /\ d >= 1 /\ d <= daysInMonth(y, m)
             THEN [days |-> daysFromCivil(y, m, d)] ELSE NULL
    ELSE NULL

\* parseDate(dateValue): a date [days |-> n], or NULL
parseDate(dateValue) ==
    IF ~truthy(dateValue) THEN NULL
    ELSE IF dateValue.t = "number" THEN [days |-> excelDate(dateValue.n)]
    ELSE LET strValue == toStringTrim(dateValue)
         IN  IF strValue = <<>> THEN NULL
             ELSE IF dateMatch(strValue) # <<>>
             THEN [days |-> newDate(parseInt(dateMatch(strValue)[3]),
                                    parseInt(dateMatch(strValue)[1]) - 1,
                                    parseInt(dateMatch(strValue)[2]))]
             ELSE nativeDate(strValue)

dateColumnKeys == << "DATETIME OPEN", "DATETIME_OPEN", "DATE TIME OPEN", "DATE_TIME_OPEN" >>

\* key.toUpperCase().replace(/\s+/g, ' ') includes 'DATETIME' and 'OPEN',
\* for the column names in use
isDateTimeOpenKey(key) == key \in { "DATETIME OPEN", "DATETIME_OPEN", "Datetime  Open" }

RECURSIVE firstDateByKey(_, _)
\* for (const key of dateColumnKeys) if (row[key]) { parsedDate ... return }
firstDateByKey(row, k) ==
    IF k > Len(dateColumnKeys) THEN NULL
    ELSE IF /\ hasKey(row, dateColumnKeys[k])
            /\ truthy(valueOf(row, dateColumnKeys[k]))
            /\ parseDate(valueOf(row, dateColumnKeys[k])) # NULL
    THEN [date |-> parseDate(valueOf(row, dateColumnKeys[k])).days,
          column |-> dateColumnKeys[k]]
    ELSE firstDateByKey(row, k + 1)

RECURSIVE firstDateByScan(_, _)
\* for (const [key, value] of Object.entries(row)): the case-insensitive match
firstDateByScan(row, k) ==
    IF k > Len(row) THEN NULL
    ELSE IF isDateTimeOpenKey(row[k][1]) /\ parseDate(row[k][2]) # NULL
    THEN [date |-> parseDate(row[k][2]).days, column |-> row[k][1]]
    ELSE firstDateByScan(row, k + 1)

\* getDateFromRow(row): {date, column} or null
getDateFromRow(row) ==
    IF firstDateByKey(row, 1) # NULL THEN firstDateByKey(row, 1)
    ELSE firstDateByScan(row, 1)

\* ---------------------------------------------------------- VIN detection
vinKeys == << "SERIAL NO", "VIN", "vin", "Vin", "VIN NO" >>

RECURSIVE vinByKey(_, _)
\* for (const key of vinKeys) if (row[key]) { value = ...trim(); if valid: break }
vinByKey(row, k) ==
    IF k > Len(vinKeys) THEN NULL
    ELSE IF /\ hasKey(row, vinKeys[k])
            /\ truthy(valueOf(row, vinKeys[k]))
            /\ isVinFormat(toStringTrim(valueOf(row, vinKeys[k])))
    THEN [vin |-> toStringTrim(valueOf(row, vinKeys[k])), foundKey |-> vinKeys[k]]
    ELSE vinByKey(row, k + 1)

RECURSIVE vinByScan(_, _)
\* if (!vin) for (const [key, value] of Object.entries(row)) ...
vinByScan(row, k) ==
    IF k > Len(row) THEN NULL
    ELSE IF truthy(row[k][2]) /\ isVinFormat(toStringTrim(row[k][2]))
    THEN [vin |-> toStringTrim(row[k][2]), foundKey |-> row[k][1]]
    ELSE vinByScan(row, k + 1)

\* the VIN the auto-detection takes from a row, or NULL
autoVin(row) == IF vinByKey(row, 1) # NULL THEN vinByKey(row, 1) ELSE vinByScan(row, 1)

\* the VIN taken from the column columnKey of a row, or NULL
manualVin(row, columnKey) ==
    IF /\ hasKey(row, columnKey)
       /\ truthy(valueOf(row, columnKey))
       /\ isVinFormat(toStringTrim(valueOf(row, columnKey)))
    THEN [vin |-> toStringTrim(valueOf(row, columnKey)), foundKey |-> columnKey]
    ELSE NULL

\* ---------------------------------------------------------- duplicate VINs
\* A duplicate row that keeps a later-or-equal date.
replacesExistingOnTie(dateInfo, existing) ==
    IF dateInfo # NULL /\ existing.dateInfo # NULL
    THEN dateInfo.date >= existing.dateInfo.date
    ELSE dateInfo # NULL /\ existing.dateInfo = NULL

\* A duplicate row that keeps the earlier date.
replacesExistingEarlier(dateInfo, existing) ==
    IF dateInfo # NULL /\ existing.dateInfo # NULL
    THEN dateInfo.date < existing.dateInfo.date
    ELSE dateInfo # NULL /\ existing.dateInfo = NULL

\* Whether the branches of "Duplicate VIN found" call vinMap.set for the
\* current row: currentDate > existingDate, or only the current row is dated.
replacesExisting(dateInfo, existing) ==
    IF dateInfo # NULL /\ existing.dateInfo # NULL
    THEN dateInfo.date > existing.dateInfo.date
    ELSE dateInfo # NULL /\ existing.dateInfo = NULL

\* vinMap after the row at index rowIndex, with VIN vin, is handled.  The map
\* is the list of its entries in insertion order; set on a present key keeps
\* the key's place.  originalRow is the row's index in data.
vinMapAfter(map, vin, rowIndex, dateInfo) ==
    LET entry == [vin |-> vin, originalRow |-> rowIndex, dateInfo |-> dateInfo]
    IN  IF \E k \in DOMAIN map : map[k].vin = vin
        THEN LET at == CHOOSE k \in DOMAIN map : map[k].vin = vin
             IN  IF replacesExisting(dateInfo, map[at])
                 THEN [map EXCEPT ![at] = entry] ELSE map
        ELSE Append(map, entry)

\* vinColumn.charCodeAt(0) - 65
ColumnLetters == << "A", "B", "C" >>
charCodeAt0(str) ==
    CASE str = "A" -> 65 [] str = "B" -> 66 [] str = "C" -> 67 [] str = "auto" -> 97
columnIndex(letter) == charCodeAt0(letter) - 65

\* Object.keys(data[0] || {})
columnKeys(sheet) == IF sheet = <<>> THEN <<>> ELSE [k \in DOMAIN sheet[1] |-> sheet[1][k][1]]

\* ------------------------------------------------------------ sheet rows
VinA == << "1", "F", "T", "F", "W", "1", "E", "5", "0", "M", "F", "A", "0", "0", "0", "0", "1" >>
VinB == << "1", "F", "M", "C", "U", "0", "F", "7", "0", "K", "U", "A", "0", "0", "0", "0", "2" >>
VinPadded == << " " >> \o VinA \o << " ", " " >>
VinLetterO == << "1", "F", "T", "F", "W", "1", "E", "5", "O", "M", "F", "A", "0", "0", "0", "0", "1" >>
VinShort == << "1", "F", "T", "F", "W", "1", "E", "5", "0", "M", "F", "A", "0", "0", "0", "0" >>
VinLong == << "1", "F", "T", "F", "W", "1", "E", "5", "0", "M", "F", "A", "0", "0", "0", "0", "1", "9" >>
VinLowerCase == << "1", "f", "t", "f", "w", "1", "e", "5", "0", "m", "f", "a", "0", "0", "0", "0", "1" >>

RowPool ==
    { << <<"ASSET NO", Str(<<"A", "1", "0", "0">>)>>, <<"SERIAL NO", Str(VinA)>>,
         <<"DATETIME OPEN", Str(<< "4", "/", "2", "9", "/", "2", "0", "2", "1" >>)>> >>,
      << <<"SERIAL NO", Str(VinPadded)>>, <<"DATETIME OPEN", Num(44316)>> >>,
      << <<"SERIAL NO", Str(VinA)>>, <<"DATETIME OPEN", Str(<<"N", "/", "A">>)>>,
         <<"NOTES", Str(VinLowerCase)>> >>,
      << <<"ASSET NO", Str(<<"A", "1", "0", "1">>)>>, <<"SERIAL NO", Str(VinA)>> >>,
      << <<"SERIAL NO", Str(VinA)>>, <<"Datetime  Open", Str(<< "2", "0", "2", "1", "-", "0", "4", "-", "2", "8" >>)>> >>,
      << <<"SERIAL NO", Str(VinA)>>, <<"DATETIME OPEN", Num(44315)>> >>,
      << <<"SERIAL NO", Str(VinLetterO)>>, <<"NOTES", Str(VinB)>>,
         <<"DATETIME OPEN", Str(<< "5", "/", "1", "/", "2", "0", "2", "1" >>)>> >>,
      << <<"VIN", Str(VinB)>>, <<"DATETIME OPEN", Str(<< "1", "3", "/", "1", "/", "2", "0", "2", "0" >>)>> >>,
      << <<"SERIAL NO", Str(VinShort)>>, <<"VIN", Str(VinLong)>>,
         <<"DATETIME OPEN", Num(44317)>> >> }

RECURSIVE SheetsOfLength(_)
SheetsOfLength(n) ==
    IF n = 0 THEN { <<>> }
    ELSE { Append(sheet, row) : sheet \in SheetsOfLength(n - 1), row \in RowPool }

InitExtract ==
    /\ vinNumbers = <<>>
    /\ InitRun
    /\ data \in UNION { SheetsOfLength(n) : n \in 0..MaxRows }
    /\ vinColumn \in { "auto" } \cup { ColumnLetters[k] : k \in DOMAIN ColumnLetters }
    /\ xpc = "rows"
    /\ rowIdx = 0
    /\ vinMap = <<>>
    /\ extractedVins = <<>>
    /\ outcome = NULL
    /\ InitNoCompare
    /\ InitNoUpload
    \* 'Reading Excel file...' is emitted once the sheet is read
    /\ progress = emitProgress(NoProgress, 10)

\* data.forEach(row => ...) of the auto-detection: one row
ExtractAutoRow ==
    /\ xpc = "rows"
    /\ vinColumn = "auto"
    /\ rowIdx < Len(data)
    /\ LET row == data[rowIdx + 1]
           found == autoVin(row)
       IN  vinMap' = IF found # NULL
                     THEN vinMapAfter(vinMap, found.vin, rowIdx + 1, getDateFromRow(row))
                     ELSE vinMap
    /\ rowIdx' = rowIdx + 1
    /\ UNCHANGED << data, vinColumn, xpc, extractedVins, outcome, pipelineVars >>
    /\ UNCHANGED << compareVars, uploadVars, progress >>

\* data.forEach(row => ...) of a specified column: one row
ExtractManualRow ==
    /\ xpc = "rows"
    /\ vinColumn # "auto"
    /\ columnIndex(vinColumn) < Len(columnKeys(data))
    /\ rowIdx < Len(data)
    /\ LET row == data[rowIdx + 1]
           found == manualVin(row, columnKeys(data)[columnIndex(vinColumn) + 1])
       IN  vinMap' = IF found # NULL
                     THEN vinMapAfter(vinMap, found.vin, rowIdx + 1, getDateFromRow(row))
                     ELSE vinMap
    /\ rowIdx' = rowIdx + 1
    /\ UNCHANGED << data, vinColumn, xpc, extractedVins, outcome, pipelineVars >>
    /\ UNCHANGED << compareVars, uploadVars, progress >>

\* `Column ${vinColumn} not found in the file. Available columns: ${columnKeys.join(', ')}`
ColumnNotFoundMessage(column, keys) ==
    << "Column ", column, " not found in the file. Available columns: " >> \o keys

\* catch (error) { throw new Error(`Error reading Excel file: ${error.message}`) }
ReadError(message) == [error |-> << "Error reading Excel file: " >> \o message]

\* A failure that names the column and leaves out the columns of the sheet.
ExtractColumnNotFoundBare ==
    /\ xpc = "rows"
    /\ vinColumn # "auto"
    /\ columnIndex(vinColumn) >= Len(columnKeys(data))
    /\ outcome' = ReadError(ColumnNotFoundMessage(vinColumn, <<>>))
    /\ xpc' = "error"
    /\ UNCHANGED << data, vinColumn, rowIdx, vinMap, extractedVins, pipelineVars >>
    /\ UNCHANGED << compareVars, uploadVars, progress >>

\* throw new Error(`Column ${vinColumn} not found in the file. ...`)
ExtractColumnNotFound ==
    /\ xpc = "rows"
    /\ vinColumn # "auto"
    /\ columnIndex(vinColumn) >= Len(columnKeys(data))
    /\ outcome' = ReadError(ColumnNotFoundMessage(vinColumn, columnKeys(data)))
    /\ xpc' = "error"
    /\ UNCHANGED << data, vinColumn, rowIdx, vinMap, extractedVins, pipelineVars >>
    /\ UNCHANGED << compareVars, uploadVars, progress >>

\* vinMap.forEach((value) => vinNumbers.push({vin, originalRow}))
ExtractConvert ==
    /\ xpc = "rows"
    /\ (vinColumn = "auto" \/ columnIndex(vinColumn) < Len(columnKeys(data)))
    /\ rowIdx = Len(data)
    /\ extractedVins' = [k \in DOMAIN vinMap |->
                            [vin |-> vinMap[k].vin, originalRow |-> vinMap[k].originalRow]]
    /\ xpc' = "extracted"
    /\ UNCHANGED << data, vinColumn, rowIdx, vinMap, outcome, pipelineVars >>
    /\ progress' = emitProgress(progress, 15)
    /\ UNCHANGED << compareVars, uploadVars >>

\* String.fromCharCode(code)
fromCharCode(code) ==
    CASE code = 65 -> "A" [] code = 66 -> "B" [] code = 67 -> "C"

\* Object.keys(data[0] || {}).map((key, index) => ({letter, name}))
availableColumns(sheet) ==
    [k \in DOMAIN columnKeys(sheet) |->
        [letter |-> fromCharCode(65 + (k - 1)), name |-> columnKeys(sheet)[k]]]

\* availableColumns.map(col => `${col.letter} (${col.name})`).join(', ')
columnList(columns) ==
    [k \in DOMAIN columns |-> << columns[k].letter, " (", columns[k].name, ")" >>]

\* The message of the result without VINs.
NoVinsMessage(sheet, column) ==
    LET hasSerialNo == \E k \in DOMAIN availableColumns(sheet) :
                          availableColumns(sheet)[k].name = "SERIAL NO"
        columnInfo == IF column = "auto" THEN << "using auto-detection" >>
                      ELSE << "in column ", column >>
    IN  IF column = "auto" /\ ~hasSerialNo
        THEN << "No VIN numbers found. Please ensure your Excel file has a column named \"SERIAL NO\" containing VIN numbers. Available columns: " >>
             \o columnList(availableColumns(sheet))
        ELSE << "No VIN numbers found " >> \o columnInfo \o << ". Available columns: " >>
             \o columnList(availableColumns(sheet))

\* if (vinNumbers.length === 0) return {..., vinCount: 0, vinNumbers: [], ...}
ExtractNoVins ==
    /\ xpc = "extracted"
    /\ Len(extractedVins) = 0
    /\ outcome' = [totalRows |-> Len(data),
                   vinCount |-> 0,
                   vinNumbers |-> <<>>,
                   columnUsed |-> vinColumn,
                   detectedColumn |-> "auto",
                   availableColumns |-> availableColumns(data),
                   message |-> NoVinsMessage(data, vinColumn)]
    /\ xpc' = "returned"
    /\ UNCHANGED << data, vinColumn, rowIdx, vinMap, extractedVins, pipelineVars >>
    /\ UNCHANGED << compareVars, uploadVars, progress >>

\* A call of scrapeVinData whatever the number of VINs.
ExtractCallScrapeAlways ==
    /\ xpc = "extracted"
    /\ vinNumbers' = [k \in DOMAIN extractedVins |-> k]
    /\ xpc' = "scraping"
    /\ UNCHANGED << pc, results, fordPage, fordOrphans, excelData,
                    phase1Vars, phase3Vars, reportVars >>
    /\ UNCHANGED << data, vinColumn, rowIdx, vinMap, extractedVins, outcome >>
    /\ UNCHANGED << compareVars, uploadVars, progress >>

\* const scrapedData = await scrapeVinData(vinNumbers.map(item => item.vin), sessionId)
\* The pipeline knows a VIN by its position in the list.
ExtractCallScrape ==
    /\ xpc = "extracted"
    /\ Len(extractedVins) # 0
    /\ vinNumbers' = [k \in DOMAIN extractedVins |-> k]
    /\ xpc' = "scraping"
    /\ UNCHANGED << pc, results, fordPage, fordOrphans, excelData,
                    phase1Vars, phase3Vars, reportVars >>
    /\ UNCHANGED << data, vinColumn, rowIdx, vinMap, extractedVins, outcome >>
    /\ UNCHANGED << compareVars, uploadVars, progress >>

NextExtract ==
    \/ ExtractAutoRow \/ ExtractManualRow \/ ExtractColumnNotFound \/ ExtractConvert
    \/ ExtractNoVins \/ ExtractCallScrape \/ FordInitialize

\* processExcelFile up to its return without VINs, its failure, or the first
\* step of the scrapeVinData it calls, for every sheet of up to MaxRows rows
\* and every column choice.
SpecExtract == InitExtract /\ [][NextExtract]_vars

\* The steps of scrapeVinData and of the lookup it awaits, then the report.
Orchestrator ==
    \/ FordInitialize \/ P1LoopHead \/ P1While \/ P1Settle \/ P1Timeout
    \/ FgTimeoutClose \/ FgReinitOk \/ FgReinitFail
    \/ P1RestartClose \/ P1RestartWait \/ P1RestartInit
    \/ P1Push \/ P1BatchClose \/ P1BatchInit \/ P1Delay \/ P1Next \/ P1End
    \/ P2Init \/ P2Check \/ P2Authenticate
    \/ P3Collect \/ P3Call \/ P3Settle \/ P3Timeout
    \/ P3BatchClose \/ P3BatchInit \/ P3BatchCheck \/ P3Delay \/ P3Next \/ P3LoopEnd
    \/ P3Map \/ P3Close \/ FinallyCloseFord \/ FinallyCloseDoc
    \/ CreateOutputExcel

\* The steps of the calls that lost their timeout race and still run.
Background ==
    \/ OrphanTimeoutClose \/ OrphanReinitOk \/ OrphanSettle \/ DocOrphanSettle

Next == Orchestrator \/ Background

Spec == Init /\ [][Next]_vars

\* A step of scrapeVinData or of the lookup it awaits.
Scraping == pc # "returned" /\ Orchestrator

\* await createOutputExcel(scrapedData, outputPath), once scrapeVinData returned.
ReportStep == pc = "returned" /\ pc' = "done"

\* The same run on an event loop that keeps resuming the pipeline: every
\* awaited call settles or loses its race against the timer, and the
\* synchronous report builder runs to its end.
FairSpec == Spec /\ WF_vars(Scraping) /\ WF_pc(ReportStep)

NextServer ==
    \/ FordInitialize \/ S1LoopHead \/ S1Call \/ S1Settle \/ S1Timeout
    \/ FgTimeoutClose \/ FgReinitOk
    \/ OrphanTimeoutClose \/ OrphanReinitOk \/ OrphanSettle
    \/ P1Push \/ P1BatchClose \/ P1BatchInit \/ P1Delay \/ P1Next \/ P1End
    \/ P2Init \/ P2Check \/ P2Authenticate
    \/ S3Collect \/ S3Call \/ S3Settle \/ S3Timeout \/ DocOrphanSettle
    \/ S3BatchClose \/ S3BatchInit \/ S3BatchCheck \/ S3Delay \/ S3Next \/ S3LoopEnd
    \/ P3Close \/ FinallyCloseFord \/ FinallyCloseDoc \/ CreateOutputExcel

\* The pipeline followed by a second build of the report from the results
\* it returned.
NextReport == Next \/ CreateOutputExcelAgain

SpecReport == Init /\ [][NextReport]_vars

\* The pipeline of src/server.js.
SpecServer == Init /\ [][NextServer]_vars

\* ================================================================= claims
\* The valid recall numbers of one result.
ValidNumbers(result) ==
    { validRecalls(result)[n].recallNumber : n \in DOMAIN validRecalls(result) }

NoDuplicates(s) == \A a, b \in DOMAIN s : a # b => s[a] # s[b]

\* C1: in one run searchVinData is called at most once for any recall number,
\* however many (VIN, recall) pairs share it.
C1_AtMostOneLookupPerRecall == NoDuplicates(resolveCalls)

\* scrapeVinData is past STEP 4 of an authenticated Phase 3.
FannedOut ==
    /\ docsearchAuthenticated
    /\ pc \in {"p3_close", "finally", "finally_doc", "returned", "done"}

\* C2: after the fan-out, two VINs whose valid recalls both contain R hold the
\* same value for R in docsearchDataByRecall, and report rows carrying the same
\* recall number show the same EA Number.
C2_SameEaInfoAcrossVins ==
    /\ FannedOut =>
          \A a, b \in DOMAIN results :
            \A R \in ValidNumbers(results[a]) \cap ValidNumbers(results[b]) :
              /\ R \in DOMAIN results[a].docsearchDataByRecall
              /\ R \in DOMAIN results[b].docsearchDataByRecall
              /\ results[a].docsearchDataByRecall[R] = results[b].docsearchDataByRecall[R]
    /\ pc = "done" =>
          \A x, y \in DOMAIN excelData :
            excelData[x].recallNumber = excelData[y].recallNumber
              => excelData[x].eaNumber = excelData[y].eaNumber

\* Two VINs share a recall number whose lookup found an EA number, and both
\* report rows show it.
C2_Witness ==
    /\ pc = "done"
    /\ FannedOut
    /\ \E x, y \in DOMAIN excelData :
          /\ excelData[x].vin # excelData[y].vin
          /\ excelData[x].recallNumber = excelData[y].recallNumber
          /\ excelData[x].eaNumber = EaNumberFound
          /\ excelData[y].eaNumber = EaNumberFound

\* C3: whatever lookups fail or time out, scrapeVinData keeps one result per
\* input VIN in input order, a failed VIN or recall number carries a failure
\* outcome with the message of the failure, and the run always goes on to the
\* built report.
C3_FailuresNeverAbort ==
    /\ Len(results) <= Len(vinNumbers)
    /\ \A k \in DOMAIN results : results[k].vin = vinNumbers[k]
    /\ pc \in {"returned", "done"} => Len(results) = Len(vinNumbers)
    /\ \A k \in DOMAIN results :
          LET fd == results[k].fordData
          IN  /\ fordInitialized => fd # NULL
              /\ fd # NULL => (fd.success \/ fd.error # <<>>)
    /\ (pc = "p1_push" /\ attempts = 1 /\ firstError # <<>>) =>
          /\ ~vinResult.fordData.success
          /\ vinResult.fordData.error \in {firstError, MsgRestartPrefix \o firstError}
    /\ \A n \in 1..j :
          n <= Len(uniqueRecallsArray)
            => uniqueRecallsArray[n] \in DOMAIN recallToDocsearchDataMap
    /\ \A R \in DOMAIN recallToDocsearchDataMap :
          recallToDocsearchDataMap[R].success \/ recallToDocsearchDataMap[R].error # <<>>
    /\ pc \notin {"returned", "done"} => ENABLED Scraping

\* A run in which one VIN's lookup timed out and another VIN's recall number
\* timed out at the registry, and the report was built with its row.
C3_Witness ==
    /\ pc = "done"
    /\ Len(results) = 2
    /\ \E k \in DOMAIN results :
          /\ results[k].fordData # NULL
          /\ ~results[k].fordData.success
          /\ results[k].fordData.error = MsgRace
    /\ \E k \in DOMAIN results :
          \E R \in DOMAIN results[k].docsearchDataByRecall :
            /\ ~results[k].docsearchDataByRecall[R].success
            /\ results[k].docsearchDataByRecall[R].error = MsgRace
    /\ Len(excelData) > 0
RestartOk == <<"close", "cooldown", "initialize">>
RestartFailed == <<"close", "cooldown", "initialize failed">>

\* The lookups that have not returned: the awaited one and those left behind
\* by a timeout.
RunningLookups == (IF fordCall = NULL THEN {} ELSE {fordCall}) \cup fordOrphans

\* C4 (as the orchestrator keeps it): scrapeVinData calls scrapeVinRecallData
\* at most twice per VIN; the second call is made only after the first failed
\* with a message of the restart class and after close, cooldown and a
\* successful initialize, and any other failure, the 60 second timeout
\* included, ends the VIN as failed without a restart by the orchestrator.
C4_OrchestratorRetriesOnce ==
    /\ attempts <= MAX_RETRIES + 1
    /\ attempts = 2 => (needsBrowserRestart(firstError) /\ restartLog = RestartOk)
    /\ restartLog # <<>> => needsBrowserRestart(firstError)
    /\ restartLog \in {<<>>, <<"close">>, <<"close", "cooldown">>, RestartOk, RestartFailed}
    /\ restartLog = RestartFailed =>
          (attempts = 1 /\ vinResult.fordData =
                             FordFailure(vinResult.vin, MsgRestartPrefix \o firstError))
    /\ (pc = "p1_push" /\ fordInitialized /\ firstError # <<>>
          /\ ~needsBrowserRestart(firstError)) =>
          /\ attempts = 1
          /\ restartLog = <<>>
          /\ vinResult.fordData = FordFailure(vinResult.vin, firstError)

\* The second attempt of a VIN is in flight after a restart.
C4_Witness ==
    /\ pc = "p1_race"
    /\ attempts = 2
    /\ restartLog = RestartOk

\* C4 as claimed: the above, and no failure other than one of the restart
\* class, a timeout included, is followed by a restart or a retry of the lookup.
C4_TimeoutNeverRetried ==
    /\ C4_OrchestratorRetriesOnce
    /\ \A call \in RunningLookups : call.rc = 0 /\ call.st # "cooldown"
\* C5: at most one scrapeVinRecallData and at most one searchVinData is
\* running at any time, a call that lost its timeout race included.
C5_OneCallInFlight ==
    /\ Cardinality(RunningLookups) <= 1
    /\ (IF docCall = NULL THEN 0 ELSE 1) + docOrphans <= 1
\* C6: once Phase 1 is over every VIN's fordData is a success or a failure
\* outcome, never null, whether or not initialize() succeeded, and after the
\* return the Ford session is closed.
C6_EveryVinSettledThenClosed ==
    /\ pc \notin {"init", "p1_loop", "p1_while", "p1_race", "p1_r_close", "p1_r_wait",
                  "p1_r_init", "p1_push", "p1_b_close", "p1_b_init", "p1_delay",
                  "p1_next"} =>
          /\ Len(results) = Len(vinNumbers)
          /\ \A k \in DOMAIN results : results[k].fordData # NULL
    /\ pc \in {"returned", "done"} => ~fordPage

\* ------------------------------------------------------------------------
\* The extractor's records and the rows they come from.

\* the VIN the extraction takes from row k of the sheet, or NULL
vinOfRow(k) ==
    IF vinColumn = "auto" THEN autoVin(data[k])
    ELSE IF columnIndex(vinColumn) < Len(columnKeys(data))
    THEN manualVin(data[k], columnKeys(data)[columnIndex(vinColumn) + 1])
    ELSE NULL

\* per row of the sheet: the VIN taken from it, and its opened date
\* (@@ << >> leaves a function as it is; TLC tabulates its operands)
rowVins == [k \in DOMAIN data |-> vinOfRow(k)] @@ << >>
rowDates == [k \in DOMAIN data |-> getDateFromRow(data[k])] @@ << >>

\* the rows among the first n that carry the VIN v
rowsWithVin(vinAt, v, n) == { k \in 1..n : vinAt[k] # NULL /\ vinAt[k].vin = v }

\* the VINs carried by the first n rows
vinsOfRows(vinAt, n) == { vinAt[k].vin : k \in { r \in 1..n : vinAt[r] # NULL } }

UpperCaseLetters ==
    { "A", "B", "C", "D", "E", "F", "G", "H", "I", "J", "K", "L", "M",
      "N", "O", "P", "Q", "R", "S", "T", "U", "V", "W", "X", "Y", "Z" }
AllowedVinChars == (UpperCaseLetters \ { "I", "O", "Q" }) \cup { Digits[k] : k \in DOMAIN Digits }

WellFormedVin(vin) == Len(vin) = 17 /\ \A k \in 1..Len(vin) : vin[k] \in AllowedVinChars

\* the text of a cell without the white space around it
CellTexts(row) == { toStringTrim(row[k][2]) : k \in DOMAIN row }

\* C7: every VIN held by a record, whether it was found by auto-detection or
\* read from the given column, has 17 characters, each of them a digit or an
\* upper-case letter other than I, O and Q, and is the trimmed text of a cell
\* of the record's row.
C7_AcceptedVinsWellFormed ==
    /\ \A k \in DOMAIN vinMap :
          /\ WellFormedVin(vinMap[k].vin)
          /\ vinMap[k].originalRow \in 1..rowIdx
          /\ vinMap[k].vin \in CellTexts(data[vinMap[k].originalRow])
    /\ \A k \in DOMAIN extractedVins :
          /\ WellFormedVin(extractedVins[k].vin)
          /\ extractedVins[k].vin \in CellTexts(data[extractedVins[k].originalRow])

\* Auto-detection took a VIN from a padded cell and another from a column off
\* the priority list, next to a cell of 17 characters that holds the letter O.
C7_Witness ==
    /\ xpc = "extracted"
    /\ vinColumn = "auto"
    /\ \E a, b \in DOMAIN data :
          /\ hasKey(data[a], "SERIAL NO") /\ valueOf(data[a], "SERIAL NO") = Str(VinPadded)
          /\ hasKey(data[b], "SERIAL NO") /\ valueOf(data[b], "SERIAL NO") = Str(VinLetterO)
          /\ { extractedVins[k].vin : k \in DOMAIN extractedVins } = { VinA, VinB }

\* the records of the VIN v
recordsOf(v) == { k \in DOMAIN extractedVins : extractedVins[k].vin = v }

\* C8: when exactly two rows carry a VIN and both have a parseable opened
\* date, one earlier than the other, the extraction ends with exactly one
\* record for the VIN and the record's row is the row with the later date,
\* whether that row comes first or second in the sheet.
C8_LaterDateWins ==
    xpc = "extracted" =>
        LET vinAt == rowVins
            dateAt == rowDates
        IN  \A a, b \in DOMAIN data :
                ( /\ a # b
                  /\ vinAt[a] # NULL
                  /\ rowsWithVin(vinAt, vinAt[a].vin, Len(data)) = { a, b }
                  /\ dateAt[a] # NULL /\ dateAt[b] # NULL
                  /\ dateAt[a].date < dateAt[b].date )
                => /\ Cardinality(recordsOf(vinAt[a].vin)) = 1
                   /\ \A k \in recordsOf(vinAt[a].vin) : extractedVins[k].originalRow = b

\* Two rows of one VIN, the earlier date first: the second row replaced the
\* first in the record.
C8_Witness ==
    /\ xpc = "extracted"
    /\ Len(data) = 2
    /\ rowVins[1] # NULL /\ rowVins[2] # NULL /\ rowVins[1].vin = rowVins[2].vin
    /\ rowDates[1] # NULL /\ rowDates[2] # NULL
    /\ rowDates[1].date < rowDates[2].date
    /\ Len(extractedVins) = 1
    /\ extractedVins[1].originalRow = 2

\* row a is ahead of row b in the order (hasDate, dateValue, first-seen)
Ahead(dateAt, a, b) ==
    \/ dateAt[a] # NULL /\ dateAt[b] = NULL
    \/ dateAt[a] # NULL /\ dateAt[b] # NULL /\ dateAt[a].date > dateAt[b].date
    \/ /\ (dateAt[a] = NULL) = (dateAt[b] = NULL)
       /\ dateAt[a] # NULL => dateAt[a].date = dateAt[b].date
       /\ a < b

\* the row of rows that is ahead of every other one
MaximumRow(dateAt, rows) == CHOOSE a \in rows : \A b \in rows \ { a } : Ahead(dateAt, a, b)

\* C9: however many rows carry a VIN and in whatever order, the VIN has
\* exactly one record, and the record's row is the maximum of those rows in
\* the order (dated before undated, later date before earlier, first-seen
\* before later-seen); no record exists for a VIN no row carries.
C9_RecordIsMaximumRow ==
    LET vinAt == rowVins
        dateAt == rowDates
    IN  /\ { vinMap[k].vin : k \in DOMAIN vinMap } = vinsOfRows(vinAt, rowIdx)
        /\ \A v \in vinsOfRows(vinAt, rowIdx) :
              /\ Cardinality({ k \in DOMAIN vinMap : vinMap[k].vin = v }) = 1
              /\ \A k \in DOMAIN vinMap :
                    vinMap[k].vin = v =>
                        /\ vinMap[k].originalRow \in rowsWithVin(vinAt, v, rowIdx)
                        /\ \A b \in rowsWithVin(vinAt, v, rowIdx) \ { vinMap[k].originalRow } :
                              Ahead(dateAt, vinMap[k].originalRow, b)
        /\ xpc = "extracted" =>
              /\ { extractedVins[k].vin : k \in DOMAIN extractedVins }
                     = vinsOfRows(vinAt, Len(data))
              /\ \A v \in vinsOfRows(vinAt, Len(data)) :
                    /\ Cardinality(recordsOf(v)) = 1
                    /\ \A k \in recordsOf(v) :
                          extractedVins[k].originalRow
                              = MaximumRow(dateAt, rowsWithVin(vinAt, v, Len(data)))

\* Three rows of one VIN: an undated row first, then two rows of the same
\* date; the record is the first of the dated rows.
C9_Witness ==
    /\ xpc = "extracted"
    /\ Len(data) = 3
    /\ rowsWithVin(rowVins, VinA, 3) = { 1, 2, 3 }
    /\ rowDates[1] = NULL /\ rowDates[2] # NULL /\ rowDates[3] # NULL
    /\ rowDates[2].date = rowDates[3].date
    /\ Len(extractedVins) = 1
    /\ extractedVins[1].originalRow = 2

\* ------------------------------------------------------------------------
\* The rows of the sheet that carry the VIN of result k.
RowsOfVin(k) == { x \in DOMAIN excelData : excelData[x].vin = results[k].vin }

Metadata(row) ==
    << row.assetNo, row.year, row.model, row.manufacturer, row.station, row.vin,
       row.workOrder, row.workOrderStatus >>


RECURSIVE SumValidRecalls(_)
\* The number of valid recalls of results[1..k].
SumValidRecalls(k) ==
    IF k = 0 THEN 0 ELSE Len(validRecalls(results[k])) + SumValidRecalls(k - 1)

\* C10: the Recall Data rows of a VIN are one per valid recall number of its
\* Ford result, with pairwise distinct recall numbers and the same vehicle
\* columns; a VIN without valid recalls has no row, and the sheet has as many
\* rows as there are valid recalls in all results.
C10_OneRowPerValidRecall ==
    pc = "done" =>
      /\ \A k \in DOMAIN results :
            /\ Cardinality(RowsOfVin(k)) = Len(validRecalls(results[k]))
            /\ { excelData[x].recallNumber : x \in RowsOfVin(k) } = ValidNumbers(results[k])
            /\ \A x, y \in RowsOfVin(k) :
                  /\ Metadata(excelData[x]) = Metadata(excelData[y])
                  /\ x # y => excelData[x].recallNumber # excelData[y].recallNumber
      /\ Len(excelData) = SumValidRecalls(Len(results))

\* A VIN with three valid recalls has three rows and a VIN whose lookup found
\* no recall has none.
C10_Witness ==
    /\ pc = "done"
    /\ \E k \in DOMAIN results :
          Len(validRecalls(results[k])) = 3 /\ Cardinality(RowsOfVin(k)) = 3
    /\ \E k \in DOMAIN results :
          /\ results[k].fordData # NULL
          /\ results[k].fordData.success
          /\ Len(validRecalls(results[k])) = 0
          /\ RowsOfVin(k) = {}

\* ------------------------------------------------------------------------
\* a result whose recall list is one of the two "no recall" placeholders alone
PlaceholderOnly(result) ==
    /\ result.fordData # NULL
    /\ result.fordData.success
    /\ result.fordData.recalls \in { << Placeholder(NoRecallInformation) >>,
                                     << Placeholder(NoRecallInformationAvailable) >> }

NoRecallTexts == { NoRecallInformation, NoRecallInformationAvailable }

\* the recall numbers shown anywhere in the report
ReportedNumbers ==
    { excelData[x].recallNumber : x \in DOMAIN excelData }
        \cup { groupedData[x].recallNumber : x \in DOMAIN groupedData }
        \cup { needsEAData[x].recallNumber : x \in DOMAIN needsEAData }

\* the VINs shown anywhere in the report
ReportedVins ==
    { excelData[x].vin : x \in DOMAIN excelData }
        \cup { groupedData[x].vin : x \in DOMAIN groupedData }
        \cup { needsWOData[x].vin : x \in DOMAIN needsWOData }

\* C11: a VIN whose recall list is only 'No recall information' or 'No recall
\* information available' has no row in any sheet of the report, the two
\* texts appear in no sheet, and the VIN causes no DocSearch lookup: every
\* number looked up is a valid recall number of some other VIN, and the VIN
\* is in no list of recallToVinsMap and keeps an empty docsearchDataByRecall.
C11_PlaceholderOnlyVinLeavesNoTrace ==
    /\ \A n \in DOMAIN resolveCalls :
          /\ resolveCalls[n] \notin NoRecallTexts
          /\ \E k \in DOMAIN results :
                ~PlaceholderOnly(results[k]) /\ resolveCalls[n] \in ValidNumbers(results[k])
    /\ ReportedNumbers \cap NoRecallTexts = {}
    /\ \A k \in DOMAIN results :
          PlaceholderOnly(results[k]) =>
              /\ results[k].vin \notin ReportedVins
              /\ DOMAIN results[k].docsearchDataByRecall = {}
              /\ \A r \in DOMAIN recallToVinsMap :
                    ~SeqContains(recallToVinsMap[r], results[k].vin)

\* A finished run in which one VIN had only 'No recall information', the other
\* had recalls that were looked up and reported.
C11_Witness ==
    /\ pc = "done"
    /\ \E k \in DOMAIN results :
          /\ PlaceholderOnly(results[k])
          /\ results[k].fordData.recalls[1].recallNumber = NoRecallInformation
    /\ resolveCalls # <<>>
    /\ excelData # <<>>
    /\ needsEAData # <<>>

\* ------------------------------------------------------------------------
\* Phase 2 is over and did not authenticate with DocSearch.
AuthNotEstablished ==
    /\ pc \in { "p3_collect", "p3_close", "finally", "finally_doc", "returned", "done" }
    /\ ~docsearchAuthenticated

\* C12: when DocSearch is not authenticated after Phase 2 (initialize()
\* returned false, or checkIfAlreadySignedIn() and authenticate() both did),
\* Phase 3 is not entered: no searchVinData call is made and every VIN's
\* docsearchDataByRecall stays empty; the run goes on to return all results,
\* and the report has a row per valid recall, each with EA Number 'NONE'.
C12_NoAuthSkipsPhase3 ==
    /\ ~docsearchAuthenticated =>
          /\ pc \notin { "p3_loop", "p3_race", "p3_b_close", "p3_b_init", "p3_b_check",
                         "p3_delay", "p3_next", "p3_map" }
          /\ resolveCalls = <<>>
          /\ docCall = NULL
          /\ recallToDocsearchDataMap = <<>>
          /\ \A k \in DOMAIN results : DOMAIN results[k].docsearchDataByRecall = {}
    /\ (AuthNotEstablished /\ pc \notin {"returned", "done"}) => ENABLED Scraping
    /\ AuthNotEstablished =>
          /\ Len(results) = Len(vinNumbers)
          /\ pc = "done" =>
                /\ Len(excelData) = SumValidRecalls(Len(results))
                /\ \A x \in DOMAIN excelData : excelData[x].eaNumber = "NONE"
                /\ \A x \in DOMAIN groupedData : groupedData[x].eaNumber = "NONE"
                /\ needsWOData = <<>>

\* The report of a run in which DocSearch opened but neither the sign-in check
\* nor authenticate() succeeded, with rows to show.
C12_Witness ==
    /\ pc = "done"
    /\ docsearchInitialized
    /\ ~docsearchAuthenticated
    /\ Len(excelData) >= 2

\* ------------------------------------------------------------------------
\* The Phase 3 loop was left by the break of the restart's sign-in check: the
\* loop is over and its index is still inside the list.
AuthLost ==
    /\ pc \in { "p3_map", "p3_close", "finally", "finally_doc", "returned", "done" }
    /\ docsearchAuthenticated
    /\ j < Len(uniqueRecallsArray)

\* the EA Number column for stored DocSearch data
RenderedEa(docsearchData) ==
    IF docsearchData.eaNumber # NullEa THEN docsearchData.eaNumber ELSE "NONE"

\* C13: when the sign-in check after a DocSearch restart in Phase 3 fails,
\* the recall numbers looked up are exactly those up to the restart and none
\* is looked up afterwards; STEP 4 gives every VIN the stored data of each of
\* its looked-up numbers unchanged, and a number not looked up is shown with
\* EA Number 'NONE' in the report.
C13_AuthLostKeepsResolved ==
    AuthLost =>
        /\ (j + 1) % DOCSEARCH_BATCH_SIZE = 0
        /\ resolveCalls = SubSeq(uniqueRecallsArray, 1, j + 1)
        /\ DOMAIN recallToDocsearchDataMap = SeqToSet(resolveCalls)
        /\ docCall = NULL
        /\ pc # "p3_map" =>
              \A k \in DOMAIN results : \A r \in ValidNumbers(results[k]) :
                  /\ r \in DOMAIN results[k].docsearchDataByRecall
                  /\ r \in SeqToSet(resolveCalls) =>
                        results[k].docsearchDataByRecall[r] = recallToDocsearchDataMap[r]
                  /\ r \notin SeqToSet(resolveCalls) =>
                        results[k].docsearchDataByRecall[r].eaNumber = NullEa
        /\ pc = "done" =>
              \A x \in DOMAIN excelData :
                  excelData[x].eaNumber =
                      IF excelData[x].recallNumber \in SeqToSet(resolveCalls)
                      THEN RenderedEa(recallToDocsearchDataMap[excelData[x].recallNumber])
                      ELSE "NONE"

\* A report after the loss: a row with the EA number found before the restart
\* and a row of a recall number that was never looked up.
C13_Witness ==
    /\ pc = "done"
    /\ AuthLost
    /\ \E x, y \in DOMAIN excelData :
          /\ excelData[x].recallNumber \in SeqToSet(resolveCalls)
          /\ excelData[x].eaNumber = EaNumberFound
          /\ excelData[y].recallNumber \notin SeqToSet(resolveCalls)
          /\ excelData[y].eaNumber = "NONE"

\* ------------------------------------------------------------------------
\* C14: the cadence restart after an N-th VIN that is not the last one leaves
\* the run going with a usable Ford session for the next lookup, whether its
\* initialize() succeeded or not: the step after close() goes on to the delay
\* before the next VIN, and the scraper has a page.
C14_SessionUsableAfterCadenceRestart ==
    [][pc = "p1_b_init" => (pc' = "p1_delay" /\ fordPage')]_vars

\* ------------------------------------------------------------------------
\* C15: when the restart that follows a retriable failure ends with
\* initialize() returning false, the VIN's result is a failure whose message
\* is 'Failed to restart browser after error: ' followed by the message of
\* the failed attempt, the retry loop is over after that one attempt, and the
\* orchestrator's next steps push this result and move on to the cadence
\* restart, the delay or the next VIN.
C15_FailedRestartIsTerminal ==
    /\ [](restartLog = RestartFailed =>
             /\ pc \in { "p1_while", "p1_push" }
             /\ scrapingSuccess
             /\ attempts = 1
             /\ fordCall = NULL
             /\ needsBrowserRestart(firstError)
             /\ vinResult.fordData = FordFailure(vinResult.vin, MsgRestartPrefix \o firstError))
    /\ [][(restartLog = RestartFailed /\ pc = "p1_while" /\ pc' # pc) =>
              (pc' = "p1_push" /\ attempts' = attempts /\ vinResult' = vinResult)]_vars
    /\ [][(restartLog = RestartFailed /\ pc = "p1_push" /\ pc' # pc) =>
              /\ results' = Append(results, vinResult)
              /\ pc' \in { "p1_b_close", "p1_delay", "p1_next" }]_vars

\* The lookup of the second VIN is running after the first VIN was recorded
\* with a restart failure.
C15_Witness ==
    /\ i = 1
    /\ fordCall # NULL
    /\ Len(results) = 1
    /\ ~results[1].fordData.success
    /\ results[1].fordData.error = MsgRestartPrefix \o MsgVinInput

\* ------------------------------------------------------------------- C16
\* The run has ended: the report has been built from the returned results.
Terminated == pc = "done"

\* C16: when every awaited collaborator call settles or is cut off by its
\* timer, every run ends: the retries of a VIN, the restarts and the
\* authentication wait all give way, and the report is built.
C16_EveryRunTerminates == <>Terminated

\* A run that ended after a failed lookup, a retry restart and a Phase 3
\* resolution.
C16_Witness ==
    /\ Terminated
    /\ Len(results) = Len(vinNumbers)
    /\ \E k \in DOMAIN results :
        results[k].fordData # NULL /\ ~results[k].fordData.success
    /\ Len(resolveCalls) >= 1
    /\ docsearchAuthenticated


\* ------------------------------------------------------------------- C17
\* else if (value) console.log(`Skipping non-VIN value in "${key}" column ...`):
\* a known VIN column of the row holds a non-empty value that fails the check.
skippedByKey(row) ==
    \E k \in DOMAIN vinKeys :
        /\ hasKey(row, vinKeys[k])
        /\ truthy(valueOf(row, vinKeys[k]))
        /\ ~isVinFormat(toStringTrim(valueOf(row, vinKeys[k])))
        /\ toStringTrim(valueOf(row, vinKeys[k])) # <<>>

\* else if (vin) console.log(`Skipping non-VIN value in column ...`)
skippedInColumn(row, columnKey) ==
    /\ hasKey(row, columnKey)
    /\ truthy(valueOf(row, columnKey))
    /\ ~isVinFormat(toStringTrim(valueOf(row, columnKey)))
    /\ toStringTrim(valueOf(row, columnKey)) # <<>>

\* The row yields no VIN and its candidate value was non-empty.
RejectedCandidate(row) ==
    IF vinColumn = "auto"
    THEN autoVin(row) = NULL /\ skippedByKey(row)
    ELSE /\ columnIndex(vinColumn) < Len(columnKeys(data))
         /\ skippedInColumn(row, columnKeys(data)[columnIndex(vinColumn) + 1])

\* C17: a row whose candidate VIN is non-empty and fails the check is part of
\* what the extractor returns (as an invalid row with value, column and
\* reason), not dropped.
C17_RejectedRowIsReturned ==
    xpc = "extracted" =>
        \A r \in DOMAIN data :
            RejectedCandidate(data[r]) =>
                \E k \in DOMAIN extractedVins : extractedVins[k].originalRow = data[r]


\* ------------------------------------------------------------------- C18
\* The letter of a specified column designates no column of the sheet.
ColumnOutOfRange ==
    /\ vinColumn # "auto"
    /\ columnIndex(vinColumn) \notin 0..(Len(columnKeys(data)) - 1)

\* No collaborator session was opened and nothing was looked up or written.
NoSessionOpened ==
    /\ pc = "init"
    /\ ~fordPage /\ ~fordInitialized /\ fordCall = NULL
    /\ ~docOpen /\ ~docsearchInitialized /\ docCall = NULL
    /\ results = <<>> /\ excelData = <<>>

\* C18: a specified column letter outside the sheet's columns makes the
\* extraction fail with the column-not-found error, whose message lists the
\* columns of the sheet; the run stops there with no session opened.
C18_ColumnNotFoundListsColumns ==
    /\ (ColumnOutOfRange /\ xpc = "rows") => ENABLED ExtractColumnNotFound
    /\ ColumnOutOfRange =>
          /\ xpc \in { "rows", "error" }
          /\ rowIdx = 0 /\ vinMap = <<>> /\ extractedVins = <<>>
          /\ NoSessionOpened
    /\ xpc = "error" =>
          /\ ColumnOutOfRange
          /\ outcome = ReadError(<< "Column ", vinColumn,
                                    " not found in the file. Available columns: " >>
                                 \o (IF data = <<>> THEN <<>>
                                     ELSE [k \in DOMAIN data[1] |-> data[1][k][1]]))
          /\ ~ENABLED NextExtract

\* The failure for column C of a one-row sheet with two columns.
C18_Witness ==
    /\ xpc = "error"
    /\ vinColumn = "C"
    /\ Len(data) = 1 /\ Len(data[1]) = 2
    /\ Len(outcome.error) = 6

\* ------------------------------------------------------------------- C19
\* C19: an extraction without VINs ends with a result, not an error: vinCount
\* 0, a message and the columns of the sheet; scrapeVinData is not called,
\* so no session is opened, nothing is looked up and no report is built.
C19_NoVinsIsSuccessWithoutSessions ==
    /\ (xpc = "extracted" /\ extractedVins = <<>>) =>
          (ENABLED ExtractNoVins /\ ~ENABLED ExtractCallScrape)
    /\ (xpc \in { "scraping", "returned" }) =>
          (xpc = "returned" <=> extractedVins = <<>>)
    /\ xpc = "returned" =>
          /\ "error" \notin DOMAIN outcome
          /\ outcome.vinCount = 0 /\ outcome.vinNumbers = <<>>
          /\ outcome.message # <<>>
          /\ Len(outcome.availableColumns) = Len(columnKeys(data))
          /\ \A k \in DOMAIN outcome.availableColumns :
                /\ outcome.availableColumns[k].name = columnKeys(data)[k]
                /\ outcome.availableColumns[k].letter = ColumnLetters[k]
          /\ NoSessionOpened
          /\ ~ENABLED NextExtract

\* A sheet of two rows, neither with a VIN, read by auto-detection.
C19_Witness ==
    /\ xpc = "returned"
    /\ vinColumn = "auto"
    /\ Len(data) = 2
    /\ outcome.totalRows = 2 /\ outcome.vinCount = 0
    /\ Len(outcome.availableColumns) = 3


\* ------------------------------------------------------------------- C20
\* The rows of the four sheets of the workbook, in sheet order.
Workbook == << groupedData, excelData, needsEAData, needsWOData >>

SheetVins == 3

\* results.map((item, index) => ({...item, originalRow})): the element of a
\* VIN with the recalls of recallList and the DocSearch data of dataMap.
ScrapedItem(vin, recallList, dataMap) ==
    [vin |-> vin, fordData |-> FordSuccess(vin, recallList),
     docsearchDataByRecall |->
        [r \in { recallList[k].recallNumber : k \in DOMAIN recallList } |-> dataMap[r]]]

\* processExcelFile at the call of createOutputExcel, scrapeVinData returned.
InitSheets ==
    /\ vinNumbers = [k \in 1..SheetVins |-> k]
    /\ pc = "returned"
    /\ \E lists \in [1..SheetVins -> SubSeqsFrom(RecallCatalogue, 1)] :
       \E found \in SUBSET { RecallCatalogue[k].recallNumber : k \in DOMAIN RecallCatalogue } :
          /\ results = [k \in 1..SheetVins |->
                        ScrapedItem(k, lists[k],
                            [r \in { RecallCatalogue[n].recallNumber :
                                       n \in DOMAIN RecallCatalogue } |->
                                IF r \in found THEN DocSuccess(r, TRUE, EaNumberFound)
                                ELSE DocFailure(r, MsgInputField)])]
          \* the events of the run: the user was signed in already, and
          \* every unique recall number was searched
          /\ LET unique == UNION { { lists[k][n].recallNumber : n \in DOMAIN lists[k] } :
                                     k \in 1..SheetVins }
                 length == Cardinality(unique)
             IN  progress =
                    emitAll(NoProgress,
                       << 10, 15, 20, 30 >>
                          \o [k \in 1..SheetVins |-> fordProgressPercent(k - 1, SheetVins)]
                          \o << 60, 75 >>
                          \o [k \in 1..length |-> docsearchProgressPercent(k - 1, length)])
    /\ i = SheetVins
    /\ fordInitialized = TRUE
    /\ retryCount = 0
    /\ scrapingSuccess = FALSE
    /\ errorMessage = <<>>
    /\ vinResult = NULL
    /\ fordPage = FALSE
    /\ fordCall = NULL
    /\ fordOrphans = {}
    /\ docsearchInitialized = TRUE
    /\ docsearchAuthenticated = TRUE
    /\ docOpen = FALSE
    /\ docIsAuthenticated = TRUE
    /\ uniqueRecallsArray = <<>>
    /\ recallToVinsMap = <<>>
    /\ recallToDocsearchDataMap = <<>>
    /\ j = 0
    /\ docCall = NULL
    /\ docOrphans = 0
    /\ resolveCalls = <<>>
    /\ recallsToCheck = <<>>
    /\ excelData = <<>>
    /\ groupedData = <<>>
    /\ needsEAData = <<>>
    /\ needsWOData = <<>>
    /\ attempts = 0
    /\ firstError = <<>>
    /\ restartLog = <<>>
    /\ InitNoSheet
    /\ InitNoCompare
    /\ InitNoUpload

SpecSheets == InitSheets /\ [][CreateOutputExcel]_vars

\* ------------------------------------------------------------------- C23
\* The work-order values the claim counts as "no work order": the empty
\* value, blanks, 'NONE' and '--'.
C23_IsPlaceholder(workOrder) ==
    workOrder = "" \/ trim(workOrder) = "" \/ toUpperCase(trim(workOrder)) = "NONE"
        \/ trim(workOrder) = "--"

C23_Needed == { k \in DOMAIN excelData :
                  hasEA(excelData[k].eaNumber) /\ C23_IsPlaceholder(excelData[k].workOrder) }

\* C23: the 'Needs WO' sheet holds exactly the report rows with a resolved EA
\* number and a work order that is empty or a placeholder ('', 'NONE', '--'):
\* each such row is listed, and the sheet has as many rows as there are such
\* report rows.
C23_NeedsWOIsRowsWithEAWithoutWorkOrder ==
    pc = "done" =>
        /\ \A k \in C23_Needed :
              \E n \in DOMAIN needsWOData : needsWOData[n] = needsWORow(excelData[k])
        /\ Len(needsWOData) = Cardinality(C23_Needed)

\* ------------------------------------------------------------------- C24
\* The report rows without a resolved EA number.
C24_Affected == { k \in DOMAIN excelData : hasNoEA(excelData[k].eaNumber) }

C25_StationKeys == << "STATION", "LOC ASSIGN PM LOC", "LOC", "PM LOC", "LOCATION" >>

\* The columns of row that carry a value under the alias key, by its exact
\* name or by its normalized name.
C25_ColumnsOf(row, key) ==
    { c \in DOMAIN row : row[c][2] # "" /\ normalize(row[c][1]) = normalize(key) }

\* The first non-empty value in alias order, the exact name before the
\* normalized ones, or the empty string.
C25_FirstNonEmpty(row, keys) ==
    LET hits == { n \in DOMAIN keys : C25_ColumnsOf(row, keys[n]) # {} }
    IN  IF hits = {} THEN ""
        ELSE LET n == CHOOSE m \in hits : \A h \in hits : m <= h
             IN  IF Cell(row, keys[n]) # "" THEN Cell(row, keys[n])
                 ELSE row[CHOOSE c \in C25_ColumnsOf(row, keys[n]) :
                             \A o \in C25_ColumnsOf(row, keys[n]) : c <= o][2]

\* C25: getColumnValue returns the first non-empty value in alias order, by
\* exact name or case- and whitespace-insensitively, or the empty string: an
\* empty value under a matching column never hides a non-empty value under
\* another alias. Stated for the station of every report row.
C25_EmptyValueNeverHidesAnAlias ==
    pc = "done" =>
        \A k \in DOMAIN excelData :
           excelData[k].station
              = C25_FirstNonEmpty(OriginalRowOf(excelData[k].vin), C25_StationKeys)

\* ------------------------------------------------------------------- C21
\* The number of rows of a sheet that equal row.
Occurrences(sheet, row) == Cardinality({ k \in DOMAIN sheet : sheet[k] = row })

\* The number of rows of a sheet that carry the recall number.
GroupSize(sheet, recallNumber) ==
    Cardinality({ k \in DOMAIN sheet : sheet[k].recallNumber = recallNumber })

\* C21: Grouped by Recall holds the rows of Recall Data, each as often; the
\* rows of one recall number are adjacent; groups of several rows come before
\* groups of one row; in each of the two parts the recall numbers ascend.
C21_GroupedIsSortedPartitionOfRecallData ==
    pc = "done" =>
        /\ Len(groupedData) = Len(excelData)
        /\ \A k \in DOMAIN excelData :
              Occurrences(groupedData, excelData[k]) = Occurrences(excelData, excelData[k])
        /\ \A k \in DOMAIN groupedData : Occurrences(excelData, groupedData[k]) > 0
        /\ \A a, b, c \in DOMAIN groupedData :
              (a < b /\ b < c /\ groupedData[a].recallNumber = groupedData[c].recallNumber)
                  => groupedData[b].recallNumber = groupedData[a].recallNumber
        /\ \A a, b \in DOMAIN groupedData :
              (/\ GroupSize(groupedData, groupedData[a].recallNumber) > 1
               /\ GroupSize(groupedData, groupedData[b].recallNumber) = 1) => a < b
        /\ \A a, b \in DOMAIN groupedData :
              (/\ a < b
               /\ (GroupSize(groupedData, groupedData[a].recallNumber) > 1)
                    = (GroupSize(groupedData, groupedData[b].recallNumber) > 1))
                  => localeCompare(groupedData[a].recallNumber,
                                   groupedData[b].recallNumber) <= 0

\* Two VINs sharing two recall numbers, one of them with a third: two groups
\* of two rows and one group of one row, in another order than Recall Data.
C21_Witness ==
    /\ pc = "done"
    /\ Len(groupedData) = 5
    /\ GroupSize(groupedData, "23S10") = 2
    /\ GroupSize(groupedData, "24V684") = 2
    /\ GroupSize(groupedData, "22L05") = 1
    /\ groupedData # excelData


\* ------------------------------------------------------------------- C22
\* Row r of the Grouped by Recall sheet (row 0 is the header) is the first
\* row of its group.
FirstOfGroup(r) ==
    r = 1 \/ groupedData[r - 1].recallNumber # groupedData[r].recallNumber

\* C22: in the outline of Grouped by Recall the first row of every group is
\* visible at level 1, and every other row of the group, the last included,
\* is hidden at level 2.
C22_EveryGroupRowHasOutlineLevel ==
    pc = "done" =>
        \A r \in DOMAIN groupedData :
            outlineRowsOf(groupedData)[r] =
                IF FirstOfGroup(r) THEN [level |-> 1, hidden |-> FALSE]
                ELSE [level |-> 2, hidden |-> TRUE]


\* ------------------------------------------------------- POST /compare
\* The rows of each of the two sheets of a request.
MaxCompareRows == 2

CharsNoRecallInformation ==
    << "N", "o", " ", "r", "e", "c", "a", "l", "l", " ",
       "i", "n", "f", "o", "r", "m", "a", "t", "i", "o", "n" >>
CharsNoRecallInformationAvailable ==
    CharsNoRecallInformation \o << " ", "a", "v", "a", "i", "l", "a", "b", "l", "e" >>
CharsTitle == << "t", "i", "t", "l", "e" >>

\* String.prototype.toLowerCase, on the characters in use
toLowerCase(chars) ==
    [k \in DOMAIN chars |->
        CASE chars[k] = "E" -> "e" [] chars[k] = "F" -> "f" [] chars[k] = "I" -> "i"
          [] chars[k] = "L" -> "l" [] chars[k] = "N" -> "n" [] chars[k] = "S" -> "s"
          [] chars[k] = "T" -> "t" [] chars[k] = "V" -> "v" [] OTHER -> chars[k]]

\* String.prototype.includes
includes(chars, part) ==
    \E k \in 0..(Len(chars) - Len(part)) : SubSeq(chars, k + 1, k + Len(part)) = part

\* The rows of the first sheet of the output file: the recall number, the
\* type and the asset number of a row, << >> for a cell the row lacks.
OutputRowPool ==
    { [recallNumber |-> << "2", "4", "V" >>, type |-> << "Recall" >>, assetNo |-> << "A", "1" >>],
      [recallNumber |-> << "2", "4", "V" >>, type |-> << >>, assetNo |-> << " ", "A", "2" >>],
      [recallNumber |-> << "s", "1", " " >>, type |-> << "Safety" >>, assetNo |-> << >>],
      [recallNumber |-> CharsNoRecallInformation, type |-> << "Recall" >>,
       assetNo |-> << "A", "1" >>],
      [recallNumber |-> << >>, type |-> << >>, assetNo |-> << "A", "3" >>] }

\* The rows of a comparison sheet with the columns Name and titleKey: a row
\* is the list of its non-empty cells, as sheet_to_json returns it; a row
\* without cells is not returned.
ComparisonRowPool(titleKey) ==
    { SelectSeq(<< << << "N", "a", "m", "e" >>, name >>, << titleKey, title >> >>,
                LAMBDA cell : cell[2] # << >>) :
        name \in { << >>, << "2", "4", "V" >> },
        title \in { << >>, << "F", " ", "2", "4", "v" >>, << " ", "S", "1" >>, << "x" >> } }
    \ { << >> }

SeqsUpTo(pool, n) == UNION { [1..len -> pool] : len \in 0..n }

\* const type = row['Type'] || 'Recall'; recallNumber.toString().trim();
\* assetNo.toString().trim()
recallSatisfactionItem(row) ==
    [recallNumber |-> trimEnd(trimStart(row.recallNumber)),
     type |-> IF row.type = << >> THEN "Recall" ELSE row.type[1],
     assetNo |-> trimEnd(trimStart(row.assetNo))]

\* outputData.forEach(row => { if (recallNumber && ...) recallSatisfactionList.push })
recallSatisfactionList(output) ==
    LET kept == SelectSeq(output, LAMBDA row :
                    /\ row.recallNumber # << >>
                    /\ row.recallNumber # CharsNoRecallInformation
                    /\ row.recallNumber # CharsNoRecallInformationAvailable)
    IN  [k \in DOMAIN kept |-> recallSatisfactionItem(kept[k])]

\* Object.keys(firstRow).find(key => key.toLowerCase() === 'title'):
\* << key >>, or << >> for undefined
titleColumn(firstRow) ==
    LET hits == { k \in DOMAIN firstRow : toLowerCase(firstRow[k][1]) = CharsTitle }
    IN  IF hits = {} THEN << >>
        ELSE << firstRow[CHOOSE k \in hits : \A h \in hits : k <= h][1] >>

\* comparisonData.forEach(row => { if (row[titleColumn]) titleValues.push(trim) })
titleValues(comparison, column) ==
    LET cellOf(row) == { k \in DOMAIN row : row[k][1] = column /\ row[k][2] # << >> }
        having == SelectSeq(comparison, LAMBDA row : cellOf(row) # {})
    IN  [k \in DOMAIN having |->
            trimEnd(trimStart(having[k][CHOOSE c \in cellOf(having[k]) : TRUE][2]))]

\* A search that compares the characters as they are.
foundSameCase(recallNumber, titles) ==
    \E k \in DOMAIN titles : includes(titles[k], recallNumber)

\* titleValues.some(titleValue => titleLower.includes(recallLower))
found(recallNumber, titles) ==
    \E k \in DOMAIN titles : includes(toLowerCase(titles[k]), toLowerCase(recallNumber))

\* recallSatisfactionList.forEach(item => { if (!foundRecallNumbers.has(...)) push })
missingRecalls(list, titles) ==
    SelectSeq(list, LAMBDA item : ~found(item.recallNumber, titles))

EmptyInput == [status |-> 400, error |-> "Comparison file is empty"]
MissingColumn == [status |-> 400, error |-> "No \"Title\" column found in comparison file"]

\* The response for the rows of the two files, the missing-recalls sheet
\* included when there is one.
comparisonOf(output, comparison) ==
    LET list == recallSatisfactionList(output)
        unique == { list[k].recallNumber : k \in DOMAIN list }
        missing == missingRecalls(list, titleValues(comparison, titleColumn(comparison[1])[1]))
    IN  [status |-> 200, success |-> TRUE,
         missingData |-> missing,
         missingFile |-> Len(missing) > 0,
         missingCount |-> Len(missing),
         totalChecked |-> Cardinality(unique)]

\* A handler that goes on without a Title column, no title to search in.
compareResponseWithoutTitle(output, comparison) ==
    IF Len(comparison) = 0 THEN EmptyInput
    ELSE IF titleColumn(comparison[1]) = << >>
    THEN [status |-> 200, success |-> TRUE,
          missingData |-> recallSatisfactionList(output),
          missingFile |-> Len(recallSatisfactionList(output)) > 0,
          missingCount |-> Len(recallSatisfactionList(output)),
          totalChecked |-> 0]
    ELSE comparisonOf(output, comparison)

\* app.post('/compare', ...), both files present and readable
compareResponse(output, comparison) ==
    IF Len(comparison) = 0 THEN EmptyInput
    ELSE IF titleColumn(comparison[1]) = << >> THEN MissingColumn
    ELSE comparisonOf(output, comparison)

Compare ==
    /\ response = NULL
    /\ response' = compareResponse(outputData, comparisonData)
    /\ UNCHANGED << outputData, comparisonData, pipelineVars, extractVars, uploadVars,
                    progress >>

\* A /compare request with its two files read, no run in progress.
InitCompare ==
    /\ outputData \in SeqsUpTo(OutputRowPool, MaxCompareRows)
    /\ \E titleKey \in { << "T", "i", "t", "l", "e" >>, << "T", "I", "T", "L", "E" >>,
                         << "T", "a", "g" >> } :
          comparisonData \in SeqsUpTo(ComparisonRowPool(titleKey), MaxCompareRows)
    /\ response = NULL
    /\ InitNoUpload
    /\ progress = NoProgress
    /\ vinNumbers = << >>
    /\ InitRun
    /\ InitNoSheet

SpecCompare == InitCompare /\ [][Compare]_vars

\* ------------------------------------------------------------------- C26
\* The report rows that carry a recall number.
C26_Carrying ==
    { k \in DOMAIN outputData :
        /\ outputData[k].recallNumber # << >>
        /\ outputData[k].recallNumber # CharsNoRecallInformation
        /\ outputData[k].recallNumber # CharsNoRecallInformationAvailable }

\* The recall number of report row k is a case-insensitive substring of a
\* value under a column named Title, in any row of the reference.
C26_InReference(k) ==
    \E r \in DOMAIN comparisonData : \E c \in DOMAIN comparisonData[r] :
       /\ toLowerCase(comparisonData[r][c][1]) = CharsTitle
       /\ includes(toLowerCase(comparisonData[r][c][2]),
                   toLowerCase(trimEnd(trimStart(outputData[k].recallNumber))))

C26_Reported(k) ==
    \E n \in DOMAIN response.missingData :
       response.missingData[n] = recallSatisfactionItem(outputData[k])

\* C26: the comparison output holds exactly the (recall number, type, asset)
\* rows whose recall number is not a case-insensitive substring of any Title
\* value of the reference: a report row with a found number has no output row,
\* each report row with an unfound number has one, and the rows that share a
\* recall number are all reported or all omitted.
C26_OutputIsRowsNotInReference ==
    (response # NULL /\ response.status = 200) =>
        /\ \A k \in C26_Carrying : C26_Reported(k) <=> ~C26_InReference(k)
        /\ Len(response.missingData)
              = Cardinality({ k \in C26_Carrying : ~C26_InReference(k) })
        /\ \A k, n \in C26_Carrying :
              outputData[k].recallNumber = outputData[n].recallNumber
                 => (C26_Reported(k) <=> C26_Reported(n))

\* Two report rows, one found under another letter case and omitted, the
\* other reported.
C26_Witness ==
    /\ response # NULL
    /\ response.status = 200
    /\ Len(response.missingData) = 1
    /\ Cardinality(C26_Carrying) = 2
    /\ \E k \in C26_Carrying :
          /\ outputData[k].recallNumber = << "2", "4", "V" >>
          /\ C26_InReference(k)

\* ------------------------------------------------------------------- C27
\* No row of the reference has a column named Title, in any letter case.
C27_NoTitleColumn ==
    \A r \in DOMAIN comparisonData : \A c \in DOMAIN comparisonData[r] :
       toLowerCase(comparisonData[r][c][1]) # CharsTitle

\* C27: the comparison fails with EmptyInput when the reference has no rows,
\* and with MissingColumn when it has rows but no column named Title; in both
\* cases there is no comparison output.
C27_EmptyOrTitlelessReferenceFails ==
    response # NULL =>
        /\ Len(comparisonData) = 0 => response = EmptyInput
        /\ (Len(comparisonData) > 0 /\ C27_NoTitleColumn) => response = MissingColumn
        /\ response.status = 400 => "missingData" \notin DOMAIN response

\* A reference of two rows without Title column, refused.
C27_Witness ==
    /\ response = MissingColumn
    /\ Len(comparisonData) = 2
    /\ Len(outputData) = 2
    /\ C27_NoTitleColumn

\* ------------------------------------------------------------------- C28
\* C28: every progress event of Phase 1 carries a percentage within 30..60
\* that is not less than the percentage of the event before it; over the
\* whole run no progress event carries less than the event before it, and the
\* run ends on 90.
C28_ProgressNeverDecreases ==
    /\ [](progress.ordered /\ (pc = "done" => progress.last = 90))
    /\ [][(pc = "p1_loop" /\ pc' \in { "p1_while", "p1_push" }) =>
              /\ progress'.last \in 30..60
              /\ progress'.last >= progress.last]_vars

\* A run over two VINs and two recall numbers that emitted events in every
\* phase, the sign-in events included.
C28_Witness ==
    /\ pc = "done"
    /\ Len(vinNumbers) = 2
    /\ Len(resolveCalls) >= 2
    /\ progress.last = 90
    /\ restartLog = <<>>

\* ------------------------------------------------------------------- C30
\* C30: the loop goes on from a VIN to the next one through the delay between
\* VINs, whatever the outcome of the VIN and whether or not the browser was
\* restarted after it; after the last VIN there is no delay.
C30_DelayBetweenVinsOnly ==
    /\ [][(pc' = "p1_next" /\ pc # "p1_next") =>
              (pc = "p1_delay" <=> i < Len(vinNumbers) - 1)]_vars
    /\ [](pc = "p1_delay" => (i < Len(vinNumbers) - 1 /\ Len(results) = i + 1))

\* The delay after a first VIN whose lookup failed.
C30_Witness ==
    /\ pc = "p1_delay"
    /\ i = 0
    /\ results[1].fordData # NULL
    /\ ~results[1].fordData.success

\* ------------------------------------------------------------------- C31
\* The texts extractRecallData puts in the place of a recall number when it
\* could extract none.
C31_Placeholders ==
    { NoRecallInformation, NoRecallInformationAvailable, MayBeAvailable }

\* C31: no placeholder text of extractRecallData is passed to searchVinData
\* as a recall number, and none is the recall number of a report row.
C31_NoPlaceholderLeavesPhase1 ==
    /\ \A k \in DOMAIN resolveCalls : resolveCalls[k] \notin C31_Placeholders
    /\ \A k \in DOMAIN excelData : excelData[k].recallNumber \notin C31_Placeholders

\* ------------------------------------------------------------------- C32
\* A step that calls searchVinData.
C32_Resolve == resolveCalls' # resolveCalls

\* C32: searchVinData is never called before every Phase 1 lookup has
\* finished and the Ford session has been closed, and never unless
\* checkIfAlreadySignedIn() or authenticate() has returned true in the run.
C32_ResolveOnlyAfterLookupsFinishedAndClosed ==
    [][C32_Resolve =>
          /\ Len(results) = Len(vinNumbers)
          /\ RunningLookups = {}
          /\ ~fordPage
          /\ docsearchAuthenticated]_vars

\* ------------------------------------------------------------------- C33
\* C33: the type of every recall entry that scrapeVinRecallData returns, and
\* so the Type of every report row, is Recall or Satisfaction.
C33_TypeIsRecallOrSatisfaction ==
    /\ \A k \in DOMAIN results :
          (results[k].fordData # NULL /\ "recalls" \in DOMAIN results[k].fordData) =>
             \A n \in DOMAIN results[k].fordData.recalls :
                results[k].fordData.recalls[n].type \in { "Recall", "Satisfaction" }
    /\ \A k \in DOMAIN excelData : excelData[k].type \in { "Recall", "Satisfaction" }

\* ------------------------------------------------------------------- C37
\* The Recall Data rows with the recall number and the type of pair, and an
\* EA number that is empty or 'NONE' in any letter case.
C37_RowsWithoutEA(pair) ==
    { k \in DOMAIN excelData :
        /\ excelData[k].recallNumber = pair.recallNumber
        /\ excelData[k].type = pair.type
        /\ \/ trim(excelData[k].eaNumber) = ""
           \/ toUpperCase(trim(excelData[k].eaNumber)) = "NONE" }

\* C37: a (recall number, type) pair is in 'Needs EA' exactly when a Recall
\* Data row with that number and type has an EA number that is empty or
\* 'NONE'; each pair is there once, sorted by recall number and then type; and
\* no row of 'Needs WO' carries an EA number that a Recall Data row gives to a
\* recall number listed in 'Needs EA'.
C37_NeedsEAIffRowWithoutEA ==
    pc = "done" =>
        /\ \A k \in DOMAIN excelData :
              LET pair == [recallNumber |-> excelData[k].recallNumber,
                           type |-> excelData[k].type]
              IN  (\E n \in DOMAIN needsEAData : needsEAData[n] = pair)
                     <=> C37_RowsWithoutEA(pair) # {}
        /\ \A n \in DOMAIN needsEAData : C37_RowsWithoutEA(needsEAData[n]) # {}
        /\ \A m, n \in DOMAIN needsEAData :
              m < n => compareNeedsEA(needsEAData[m], needsEAData[n]) < 0
        /\ \A w \in DOMAIN needsWOData : \A n \in DOMAIN needsEAData :
              ~\E k \in DOMAIN excelData :
                  /\ excelData[k].recallNumber = needsEAData[n].recallNumber
                  /\ excelData[k].eaNumber = needsWOData[w].eaNumber

\* A report with a recall number in 'Needs EA' and a vehicle of another recall
\* number in 'Needs WO'.
C37_Witness ==
    /\ pc = "done"
    /\ Len(needsEAData) >= 1
    /\ Len(needsWOData) >= 1

\* ------------------------------------------------------------------- C39
\* How far a call of scrapeVinRecallData has come: two steps per restart.
C39_Rank(call) == 2 * call.rc + (IF call.st = "cooldown" THEN 1 ELSE 0)

\* What a call returns is a success with recall data or a failure with an
\* error message.
C39_IsResult(fd) ==
    \/ fd.success /\ "recalls" \in DOMAIN fd /\ "error" \notin DOMAIN fd
    \/ ~fd.success /\ "error" \in DOMAIN fd /\ fd.error # << >>

\* C39: a call of scrapeVinRecallData restarts the browser at most
\* ScraperMaxRetries times (three attempts at most), every step it takes
\* brings it nearer to that limit, so it ends; what it returns is a success
\* with recall data or a failure with an error message; and a failed
\* re-initialization ends it with a failure result and no further attempt.
C39_LookupEndsWithAResult ==
    /\ [](\A call \in RunningLookups :
             /\ call.rc <= ScraperMaxRetries
             /\ C39_Rank(call) <= 2 * ScraperMaxRetries
             /\ call.st \in {"run", "notinit"} => LookupOutcomes(call) # {}
             /\ \A fd \in LookupOutcomes(call) : C39_IsResult(fd))
    /\ [][/\ (fordCall # NULL /\ fordCall' # NULL /\ fordCall' # fordCall)
                => /\ fordCall'.vin = fordCall.vin
                   /\ C39_Rank(fordCall') = C39_Rank(fordCall) + 1
          /\ (/\ fordCall # NULL
              /\ fordCall.st = "cooldown"
              /\ fordCall' = NULL
              /\ fordOrphans' = fordOrphans)
                => /\ vinResult'.fordData = FordFailure(fordCall.vin, MsgReinit)
                   /\ attempts' = attempts]_vars

\* A call in its third attempt, after two restarts of the browser.
C39_Witness ==
    /\ fordCall # NULL
    /\ fordCall.rc = ScraperMaxRetries
    /\ fordCall.st = "run"

\* ------------------------------------ POST /upload, GET /progress, the page
\* Events a run emits before it returns or throws.
MaxProgressEvents == 2

\* emitProgress(sessionId, data): client.write(...) when the registry holds a
\* stream for the session; without one the event is dropped.
writeToClient(wire, type) == IF sseClients THEN Append(wire, type) ELSE wire

\* processFile(): the page shows the progress section, hides error and
\* results, disables the Process button, opens the EventSource and sends the
\* file with fetch('/upload').
processFile ==
    /\ client.fetch = "none"
    /\ client' = [processBtnDisabled |-> TRUE, progressShown |-> TRUE,
                  resultsShown |-> FALSE, errorShown |-> FALSE,
                  eventSource |-> "connecting", fetch |-> "pending"]
    /\ UNCHANGED << sseClients, sseWire, sseLog, uploadPc, uploadedFile, uploadReply,
                    emitted >>
    /\ UNCHANGED << pipelineVars, extractVars, compareVars, progress >>

\* app.post('/upload', upload.single('excelFile'), ...): the file is stored in
\* the upload directory and processExcelFile is awaited.
UploadReceive ==
    /\ client.fetch # "none"
    /\ uploadPc = "idle"
    /\ uploadPc' = "processing"
    /\ uploadedFile' = TRUE
    /\ UNCHANGED << sseClients, sseWire, sseLog, uploadReply, emitted, client >>
    /\ UNCHANGED << pipelineVars, extractVars, compareVars, progress >>

\* app.get('/progress/:sessionId'): sseClients.set(sessionId, res); the
\* EventSource of the page is open.
ProgressConnect ==
    /\ client.eventSource = "connecting"
    /\ sseClients' = TRUE
    /\ sseLog' = sseLog \cup {"subscribed"}
    /\ client' = [client EXCEPT !.eventSource = "open"]
    /\ UNCHANGED << sseWire, uploadPc, uploadedFile, uploadReply, emitted >>
    /\ UNCHANGED << pipelineVars, extractVars, compareVars, progress >>

\* req.on('close', () => sseClients.delete(sessionId)): the page has closed
\* its EventSource.
ProgressClose ==
    /\ sseClients
    /\ client.eventSource = "closed"
    /\ sseClients' = FALSE
    /\ UNCHANGED << sseWire, sseLog, uploadPc, uploadedFile, uploadReply, emitted,
                    client >>
    /\ UNCHANGED << pipelineVars, extractVars, compareVars, progress >>

\* The run emits an event of type 'progress', or of type 'error' (DocSearch
\* sign-in required, DocSearch session expired) and goes on.
RunEmit(type) ==
    /\ uploadPc = "processing"
    /\ emitted < MaxProgressEvents
    /\ emitted' = emitted + 1
    /\ sseWire' = writeToClient(sseWire, type)
    /\ sseLog' = IF sseClients THEN sseLog \cup {type} ELSE sseLog
    /\ UNCHANGED << sseClients, uploadPc, uploadedFile, uploadReply, client >>
    /\ UNCHANGED << pipelineVars, extractVars, compareVars, progress >>

\* processExcelFile returned: fs.unlinkSync(filePath), the 'complete' event,
\* client.end() if there is a client, sseClients.delete(sessionId), res.json.
UploadComplete ==
    /\ uploadPc = "processing"
    /\ uploadedFile' = FALSE
    /\ sseWire' = writeToClient(writeToClient(sseWire, "complete"), "end")
    /\ sseLog' = IF sseClients THEN sseLog \cup {"complete", "end"} ELSE sseLog
    /\ sseClients' = FALSE
    /\ uploadReply' = [status |-> 200, success |-> TRUE]
    /\ uploadPc' = "answered"
    /\ UNCHANGED << emitted, client >>
    /\ UNCHANGED << pipelineVars, extractVars, compareVars, progress >>

\* processExcelFile threw: catch (error) answers with status 500.
UploadCatch ==
    /\ uploadPc = "processing"
    /\ uploadReply' = [status |-> 500, success |-> FALSE]
    /\ uploadPc' = "answered"
    /\ UNCHANGED << sseClients, sseWire, sseLog, uploadedFile, emitted, client >>
    /\ UNCHANGED << pipelineVars, extractVars, compareVars, progress >>

\* eventSource.onmessage: what the page does with an event of the given type.
onmessage(page, type) ==
    IF type = "progress" THEN page
    ELSE IF type = "error"
    THEN [page EXCEPT !.errorShown = TRUE, !.progressShown = FALSE,
                      !.processBtnDisabled = FALSE]
    ELSE [page EXCEPT !.eventSource = "closed", !.progressShown = FALSE,
                      !.resultsShown = TRUE, !.processBtnDisabled = FALSE]

\* An event reaches the open EventSource.
OnMessage ==
    /\ client.eventSource = "open"
    /\ sseWire # << >>
    /\ Head(sseWire) # "end"
    /\ client' = onmessage(client, Head(sseWire))
    /\ sseWire' = Tail(sseWire)
    /\ UNCHANGED << sseClients, sseLog, uploadPc, uploadedFile, uploadReply, emitted >>
    /\ UNCHANGED << pipelineVars, extractVars, compareVars, progress >>

\* eventSource.onerror: the connection failed or the server ended the stream;
\* the page closes the EventSource.
OnError ==
    /\ client.eventSource \in {"connecting", "open"}
    /\ client' = [client EXCEPT !.eventSource = "closed"]
    /\ sseWire' = IF sseWire # << >> /\ Head(sseWire) = "end" THEN Tail(sseWire)
                  ELSE sseWire
    /\ UNCHANGED << sseClients, sseLog, uploadPc, uploadedFile, uploadReply, emitted >>
    /\ UNCHANGED << pipelineVars, extractVars, compareVars, progress >>

\* .then(data => { if (!data.success) {...} }): the response of /upload.
fetchThen(page, reply) ==
    IF ~reply.success
    THEN [page EXCEPT !.progressShown = FALSE, !.errorShown = TRUE,
                      !.processBtnDisabled = FALSE, !.fetch = "failed"]
    ELSE [page EXCEPT !.fetch = "succeeded"]

FetchThen ==
    /\ client.fetch = "pending"
    /\ uploadReply # NULL
    /\ client' = fetchThen(client, uploadReply)
    /\ UNCHANGED << sseClients, sseWire, sseLog, uploadPc, uploadedFile, uploadReply,
                    emitted >>
    /\ UNCHANGED << pipelineVars, extractVars, compareVars, progress >>

\* .catch(error => ...): the request failed on the network.
FetchCatch ==
    /\ client.fetch = "pending"
    /\ client' = [client EXCEPT !.progressShown = FALSE, !.errorShown = TRUE,
                                !.eventSource = "closed",
                                !.processBtnDisabled = FALSE, !.fetch = "network"]
    /\ UNCHANGED << sseClients, sseWire, sseLog, uploadPc, uploadedFile, uploadReply,
                    emitted >>
    /\ UNCHANGED << pipelineVars, extractVars, compareVars, progress >>

\* The page as loaded with a file selected, no run in progress.
InitUpload ==
    /\ InitNoUpload
    /\ InitNoCompare
    /\ progress = NoProgress
    /\ vinNumbers = << >>
    /\ InitRun
    /\ InitNoSheet

NextUpload ==
    \/ processFile
    \/ UploadReceive
    \/ ProgressConnect
    \/ ProgressClose
    \/ \E type \in {"progress", "error"} : RunEmit(type)
    \/ UploadComplete
    \/ UploadCatch
    \/ OnMessage
    \/ OnError
    \/ FetchThen
    \/ FetchCatch

SpecUpload == InitUpload /\ [][NextUpload]_vars

\* ------------------------------------------------------------------- C34
\* C34: the step that answers the /upload request of a run with a registered
\* subscriber publishes a terminal event (complete or error), ends the stream
\* and leaves no entry of the run in the registry, also when the run failed.
C34_FinishedRunEndsItsStream ==
    [][(uploadPc = "processing" /\ uploadPc' = "answered" /\ sseClients)
          => /\ ~sseClients'
             /\ \E type \in {"complete", "error"} :
                   sseWire' = sseWire \o << type, "end" >>]_vars

\* ------------------------------------------------------------------- C35
\* C35: once /upload has succeeded and the progress stream is closed, the
\* page has left the processing state: the results are shown and the Process
\* button is enabled, whatever the stream delivered.
C35_SucceededUploadShowsResults ==
    (client.fetch = "succeeded" /\ client.eventSource = "closed")
        => /\ client.resultsShown
           /\ ~client.processBtnDisabled
           /\ ~client.progressShown

\* ------------------------------------------------------------------- C36
\* C36: while the run is neither completed nor failed (the /upload request is
\* sent and not yet answered) the Process button is disabled, also after an
\* 'error' progress event.
C36_ButtonDisabledDuringRun ==
    (client.fetch = "pending" /\ uploadPc \in {"idle", "processing"})
        => client.processBtnDisabled

\* ------------------------------------------------------------------- C38
\* C38: when the /upload request is answered, the uploaded file is no longer
\* in the upload directory, on success and on every error path.
C38_UploadedFileDeletedWhenAnswered ==
    uploadPc = "answered" => ~uploadedFile

====
